---- MODULE Spec2Model ----
(***************************************************************************)
(* Model of the grace crate (Diggsey/grace): the shutdown coordinator of   *)
(* src/src/lib.rs on top of the unix bridge of src/src/unix.rs (a worker   *)
(* thread fed by a signal handler through two atomic counters and a        *)
(* counting semaphore).                                                    *)
(*                                                                         *)
(* Threads of the model: one user thread per ShutdownGuard (it constructs  *)
(* the guard and later drops or forgets it), the background threads        *)
(* spawned by enter_outer, and the signal handler executions.              *)
(*                                                                         *)
(* Below the coordinator, the signal-stack crate (src/signal-stack/src):   *)
(* the handler table HANDLERS in its two-slot RwLock, add_handler and      *)
(* remove_handler as SignalHandlerGuards make them, our_handler and        *)
(* delegate. It has its own specification, StackSpec; in Spec the          *)
(* coordinator sees it through Registered, Installed and ReadersDrained.   *)
(***************************************************************************)
EXTENDS Integers, Sequences, FiniteSets, TLC

\* Number of ShutdownGuards (and user threads) of a run; guard g is the g-th
\* guard constructed.
MaxGuards == 2
\* Number of notifications the signal handler records in a run.
MaxSignals == 2

Guards == 1 .. MaxGuards
\* enter_outer runs at most once per guard, so this many threads are spawned.
Workers == 1 .. MaxGuards

\* enum ShutdownType
Interrupt == "Interrupt"
Terminate == "Terminate"
ShutdownType == {Interrupt, Terminate}

\* The `types` slices guards are constructed with.
TypeLists == {<<Interrupt>>, <<Terminate>>, <<Interrupt, Terminate>>}

VARIABLES
    gpc,         \* user thread of guard g: where it is in new / drop / forget
    gtypes,      \* the `types` slice guard g was constructed with
    stateSome,   \* STATE.is_some()
    slots,       \* State::slots, kind -> Slot::handlers (handler of guard g is g)
    mutex,       \* holder of the STATE mutex
    NOTIFY_SEM,  \* value of the semaphore NOTIFY_SEM
    STOP_SEM,    \* value of the semaphore STOP_SEM
    INT_COUNT,
    TERM_COUNT,
    STOPPING,
    wk,          \* background threads: program counter and locals
    unposted,    \* signal_handler executions between fetch_add and sem_post
    exited,      \* "no", or how the process ended: "exit(3)" (std::process::exit
                 \* in handle), "_exit(3)" (libc::_exit in delegate), "killed"
    recorded,    \* history: fetch_adds of signal_handler, per kind
    dispatched,  \* history: calls of handle, per kind
    regseq       \* history: guards in the order new_inner pushed their handler

\* signal-stack
VARIABLES
    values,      \* HANDLERS.values: the two copies of Option<Handlers>
    rwlock,      \* the spin::RwLock of each copy: readers, writer, upgraded
    rw_mutex,    \* holder of HANDLERS.mutex, 0 when free
    sigaction,   \* the handler the platform has installed for each signal number
    th,          \* user thread of each SignalHandlerGuard: where it is in
                 \* add_handler / remove_handler, and its locals
    rd,          \* executions of our_handler: position and locals
    pushed,      \* history: per signal number, the entries pushed and not
                 \* removed, in the order of the pushes
    installs,    \* history: per signal number, installs of the trampoline
    written,     \* history: the table as the last two whole writes left it
    order,       \* history: the writes numbered in the order of their commits:
                 \* the number of the last one, the number of the write whose
                 \* value each copy holds, and the highest number that a read
                 \* which has returned was given
    delegating   \* per thread that a signal without a named default action is
                 \* delivered to: its place in the last arm of delegate

coordVars == <<gpc, gtypes, stateSome, slots, mutex, NOTIFY_SEM, STOP_SEM, INT_COUNT,
               TERM_COUNT, STOPPING, wk, unposted, recorded, dispatched, regseq>>

stackVars == <<values, rwlock, rw_mutex, sigaction, th, rd, pushed, installs, written, order,
               delegating>>

vars == <<gpc, gtypes, stateSome, slots, mutex, NOTIFY_SEM, STOP_SEM, INT_COUNT,
          TERM_COUNT, STOPPING, wk, unposted, exited, recorded, dispatched, regseq,
          values, rwlock, rw_mutex, sigaction, th, rd, pushed, installs, written, order,
          delegating>>

Free == <<"free">>
ByGuard(g) == <<"guard", g>>
ByWorker(w) == <<"worker", w>>

\* A background thread that was never spawned.
\* int_count, term_count: the iterations the two for loops still have to make;
\* kind, cur: the argument of the running handle call and the handler it invokes;
\* got, log (history): what this wake drained, and the handle calls it made.
Unborn == [pc |-> "unborn", int_count |-> 0, term_count |-> 0, kind |-> "none",
           cur |-> 0, got |-> <<0, 0>>, log |-> << >>]

\* Number of SignalHandlerGuards (and of the user threads that make them) of a
\* run of the signal stack; guard t is the t-th constructed.
MaxHandlers == 2
\* Number of signals delivered to the trampoline in a run of the signal stack.
MaxDeliveries == 1
\* Number of threads that are in delegate for a signal at the same time.
MaxRaisers == 2

Threads == 1 .. MaxHandlers

\* The threads that run handler_thunk at the same time.
Raisers == 1 .. MaxRaisers
Deliveries == 1 .. MaxDeliveries

\* Signal numbers: the arms of delegate's match, and two signals that it does
\* not name.
SIGINT == "SIGINT"
SIGTERM == "SIGTERM"
DoNothingSignals == {"SIGCHLD", "SIGCONT", "SIGURG", "SIGWINCH"}
StopSignals == {"SIGTSTP", "SIGTTIN", "SIGTTOU"}
AbortSignals == {"SIGABRT", "SIGBUS", "SIGFPE", "SIGILL", "SIGQUIT", "SIGSEGV", "SIGSYS",
                 "SIGTRAP", "SIGXCPU", "SIGXFSZ"}
TerminateSignals == {"SIGALRM", "SIGHUP", SIGINT, "SIGPIPE", "SIGPOLL", "SIGPROF", SIGTERM,
                     "SIGUSR1", "SIGUSR2", "SIGVTALRM"}
UnnamedSignals == {"SIGPWR", "SIGSTKFLT"}
Signums == DoNothingSignals \cup StopSignals \cup AbortSignals \cup TerminateSignals \cup UnnamedSignals

\* The `signums` slices SignalHandlerGuards are constructed with: a signal
\* number listed twice, or two signal numbers.
SignumLists == {<<SIGINT, SIGINT>>, <<SIGINT, SIGTERM>>}

\* What a PlatformSigHandler can hold in sa_sigaction: the default action, the
\* ignore action, a handler function (called with the signal number, or, with
\* SA_SIGINFO in sa_flags, with three arguments), or handler_thunk.
SIG_DFL == "SIG_DFL"
SIG_IGN == "SIG_IGN"
SigHandlerPtr == "SigHandlerPtr"
SigActionPtr == "SigActionPtr"
handler_thunk == "handler_thunk"
\* The handlers a process has before the signal stack installs its own.
Foreign == {SIG_DFL, SIG_IGN, SigHandlerPtr, SigActionPtr}

\* HANDLERS = RwLock::const_new(None, None): the Option<Handlers> None.
None == [some |-> FALSE, map |-> << >>]
\* spin::RwLock::new
Unlocked == [readers |-> 0, writer |-> FALSE, upgraded |-> FALSE]

\* A user thread that has not constructed its SignalHandlerGuard.
\* op, pc: the operation the thread is in and its position; i: index of the
\* loop over signums; install_c_handlers, prevs: locals of add_handler;
\* value: the clone WriteGuard::drop commits; listed (history): the signums
\* the guard was constructed with.
NoThread == [pc |-> "unborn", op |-> "none", signums |-> << >>, handler |-> 0, i |-> 0,
             install_c_handlers |-> << >>, prevs |-> << >>, value |-> None,
             listed |-> << >>]

\* No execution of our_handler. idx: the copy read() tries next or holds; calls
\* (history): the items called with what they returned; delegated (history):
\* calls of delegate and what it did; saw (history): the number of the write
\* whose value read() returned; after (history): the highest number a read had
\* returned with when this one began.
NoDelivery == [pc |-> "idle", signum |-> "none", idx |-> 0, calls |-> << >>,
               delegated |-> << >>, saw |-> 0, after |-> 0]

\* No call of delegate for a signal whose default action the code does not
\* name. prev: the local of the last arm of delegate.
NotDelegating == [pc |-> "idle", signum |-> "none", prev |-> "none"]

\* No write was committed and no read has returned. commits: the writes that
\* released values[1], which numbers them; at[i]: the number of the write whose
\* value values[i] holds; by[t]: the number of the last write of user thread t;
\* returned: the highest number a read has returned with.
NoCommit == [commits |-> 0, at |-> [i \in {0, 1} |-> 0], by |-> [t \in Threads |-> 0],
             returned |-> 0]

\* The signal stack before its first use.
StackUnused ==
    /\ values = [i \in {0, 1} |-> None]
    /\ rwlock = [i \in {0, 1} |-> Unlocked]
    /\ rw_mutex = 0
    /\ th = [t \in Threads |-> NoThread]
    /\ rd = [r \in Deliveries |-> NoDelivery]
    /\ pushed = [s \in Signums |-> << >>]
    /\ installs = [s \in Signums |-> 0]
    /\ written = <<None, None>>
    /\ order = NoCommit
    /\ delegating = [d \in Raisers |-> NotDelegating]

\* The coordinator before the first ShutdownGuard.
CoordinatorUnused ==
    /\ gpc = [g \in Guards |-> "unborn"]
    /\ gtypes = [g \in Guards |-> << >>]
    /\ stateSome = FALSE
    /\ slots = << >>
    /\ mutex = Free
    /\ NOTIFY_SEM = 0
    /\ STOP_SEM = 0
    /\ INT_COUNT = 0
    /\ TERM_COUNT = 0
    /\ STOPPING = FALSE
    /\ wk = [w \in Workers |-> Unborn]
    /\ unposted = 0
    /\ exited = "no"
    /\ recorded = [k \in ShutdownType |-> 0]
    /\ dispatched = [k \in ShutdownType |-> 0]
    /\ regseq = << >>

\* A process that installed no signal handler of its own.
Init ==
    /\ CoordinatorUnused
    /\ StackUnused
    /\ sigaction = [s \in Signums |-> SIG_DFL]

Running == exited = "no"

\* The process ends: nothing of its state is left but how it ended.
Terminated(how) ==
    /\ exited' = how
    /\ gpc' = [g \in Guards |-> "unborn"]
    /\ gtypes' = [g \in Guards |-> << >>]
    /\ stateSome' = FALSE
    /\ slots' = << >>
    /\ mutex' = Free
    /\ NOTIFY_SEM' = 0
    /\ STOP_SEM' = 0
    /\ INT_COUNT' = 0
    /\ TERM_COUNT' = 0
    /\ STOPPING' = FALSE
    /\ wk' = [w \in Workers |-> Unborn]
    /\ unposted' = 0
    /\ recorded' = [k \in ShutdownType |-> 0]
    /\ dispatched' = [k \in ShutdownType |-> 0]
    /\ regseq' = << >>

\* A mutex that excludes nobody.
MutexNeverHeld == TRUE

\* STATE.lock() returns once no thread holds the mutex.
MutexFree == mutex = Free

\* slot.handlers of kind k; no handlers when the kind has no slot.
Handlers(s, k) == IF k \in DOMAIN s THEN s[k] ELSE << >>

\* Body of new_inner's loop for one type_:
\* slots.entry(type_).or_insert_with(|| Slot::new(type_)).handlers.push(handler)
PushHandler(s, k, g) ==
    [x \in DOMAIN s \cup {k} |-> IF x = k THEN Append(Handlers(s, k), g) ELSE s[x]]

RECURSIVE PushAll(_, _, _)
\* new_inner's loop over `types`.
PushAll(s, types, g) ==
    IF types = << >> THEN s
    ELSE PushAll(PushHandler(s, Head(types), g), Tail(types), g)

\* handlers.iter().enumerate().rev().find(same pointer): the last index holding
\* the handler of guard g, 0 when there is none.
FindLast(h, g) ==
    IF \E i \in 1 .. Len(h) : h[i] = g
    THEN CHOOSE i \in 1 .. Len(h) : h[i] = g /\ \A j \in (i + 1) .. Len(h) : h[j] # g
    ELSE 0

\* Vec::remove(index)
RemoveAt(h, i) == SubSeq(h, 1, i - 1) \o SubSeq(h, i + 1, Len(h))

\* A drop that leaves the emptied slot in the map.
RemoveHandlerKeepsSlot(s, k, g) ==
    IF k \notin DOMAIN s THEN s
    ELSE [s EXCEPT ![k] = RemoveAt(s[k], FindLast(s[k], g))]

\* Body of drop's loop for one type_: remove the handler found from the back,
\* and the slot with it when no handler is left (occ.remove()).
RemoveHandler(s, k, g) ==
    IF k \notin DOMAIN s THEN s
    ELSE LET h == RemoveAt(s[k], FindLast(s[k], g))
         IN  IF h = << >> THEN [x \in DOMAIN s \ {k} |-> s[x]]
             ELSE [s EXCEPT ![k] = h]

RECURSIVE RemoveAll(_, _, _)
\* drop's loop over `self.types`.
RemoveAll(s, types, g) ==
    IF types = << >> THEN s
    ELSE RemoveAll(RemoveHandler(s, Head(types), g), Tail(types), g)

RECURSIVE ExpectFails(_, _, _)
\* drop's .expect("State should contain handler") panics: an occupied slot of
\* one of the types does not hold the handler.
ExpectFails(s, types, g) ==
    IF types = << >> THEN FALSE
    ELSE \/ Head(types) \in DOMAIN s /\ FindLast(s[Head(types)], g) = 0
         \/ ExpectFails(RemoveHandler(s, Head(types), g), Tail(types), g)

\* The background thread as thread::spawn(background_thread) starts it.
Spawned == [Unborn EXCEPT !.pc = "check"]

\* enter_outer: sem_init both semaphores to 0 and spawn the background thread.
enter_outer ==
    /\ NOTIFY_SEM' = 0
    /\ STOP_SEM' = 0
    /\ LET w == CHOOSE x \in Workers :
                    wk[x].pc = "unborn" /\ \A y \in Workers : y < x => wk[y].pc # "unborn"
       IN  wk' = [wk EXCEPT ![w] = Spawned]

\* ShutdownGuard::new_inner (all constructors end in it).
New(g, types) ==
    /\ Running
    /\ gpc[g] = "unborn"
    /\ \A h \in Guards : h < g => gpc[h] # "unborn"
    /\ gpc' = [gpc EXCEPT ![g] = "live"]
    /\ gtypes' = [gtypes EXCEPT ![g] = types]
    /\ IF types = << >>
       THEN UNCHANGED <<stateSome, slots, NOTIFY_SEM, STOP_SEM, wk, regseq>>
       ELSE /\ MutexFree
            /\ IF stateSome
               THEN UNCHANGED <<NOTIFY_SEM, STOP_SEM, wk>>
               ELSE enter_outer
            /\ stateSome' = TRUE
            /\ slots' = PushAll(slots, types, g)
            /\ regseq' = Append(regseq, g)
    /\ UNCHANGED <<mutex, INT_COUNT, TERM_COUNT, STOPPING, unposted, exited,
                   recorded, dispatched>>
    /\ UNCHANGED stackVars

\* A forget that leaves the guard its types.
ForgottenTypesKept(types) == types

\* ShutdownGuard::forget: self.types = &[]
ForgottenTypes(types) == << >>

\* ShutdownGuard::forget, and the drop of `self` at its end: with no types it
\* takes no lock and removes no handler (gtypes keeps, as history, the types
\* the guard was constructed with).
Forget(g) ==
    /\ Running
    /\ gpc[g] = "live"
    /\ gpc' = [gpc EXCEPT ![g] = "forgotten"]
    /\ slots' = RemoveAll(slots, ForgottenTypes(gtypes[g]), g)
    /\ UNCHANGED <<gtypes, stateSome, mutex, NOTIFY_SEM, STOP_SEM, INT_COUNT,
                   TERM_COUNT, STOPPING, wk, unposted, exited, recorded, dispatched,
                   regseq>>
    /\ UNCHANGED stackVars

\* Dropping a Slot drops its SignalHandlerGuard; remove_handler's write of the
\* handler table is committed only once the signal handlers reading it returned.
ReadersDrained == unposted = 0

\* ShutdownGuard::drop up to guard.take(): lock, remove the handler from the slot
\* of each type, and take the State out when no slot is left. Dropping the State
\* taken runs leave_outer with the mutex still held.
Drop(g) ==
    /\ Running
    /\ gpc[g] = "live"
    /\ IF gtypes[g] = << >>
       THEN /\ gpc' = [gpc EXCEPT ![g] = "dropped"]
            /\ UNCHANGED <<stateSome, slots, mutex>>
       ELSE /\ MutexFree
            /\ IF ~stateSome \/ ExpectFails(slots, gtypes[g], g)
               THEN /\ gpc' = [gpc EXCEPT ![g] = "panicked"]
                    /\ UNCHANGED <<stateSome, slots, mutex>>
               ELSE LET s == RemoveAll(slots, gtypes[g], g)
                    IN  /\ DOMAIN s # DOMAIN slots => ReadersDrained
                        /\ slots' = s
                        /\ IF s = << >>
                           THEN /\ stateSome' = FALSE
                                /\ mutex' = ByGuard(g)
                                /\ gpc' = [gpc EXCEPT ![g] = "leave_store"]
                           ELSE /\ gpc' = [gpc EXCEPT ![g] = "dropped"]
                                /\ UNCHANGED <<stateSome, mutex>>
    /\ UNCHANGED <<gtypes, NOTIFY_SEM, STOP_SEM, INT_COUNT, TERM_COUNT, STOPPING, wk,
                   unposted, exited, recorded, dispatched, regseq>>
    /\ UNCHANGED stackVars

\* leave_outer: STOPPING.store(true)
LeaveStore(g) ==
    /\ Running
    /\ gpc[g] = "leave_store"
    /\ STOPPING' = TRUE
    /\ gpc' = [gpc EXCEPT ![g] = "leave_post"]
    /\ UNCHANGED <<gtypes, stateSome, slots, mutex, NOTIFY_SEM, STOP_SEM, INT_COUNT,
                   TERM_COUNT, wk, unposted, exited, recorded, dispatched, regseq>>
    /\ UNCHANGED stackVars

\* leave_outer: sem_post(NOTIFY_SEM)
LeavePost(g) ==
    /\ Running
    /\ gpc[g] = "leave_post"
    /\ NOTIFY_SEM' = NOTIFY_SEM + 1
    /\ gpc' = [gpc EXCEPT ![g] = "leave_wait"]
    /\ UNCHANGED <<gtypes, stateSome, slots, mutex, STOP_SEM, INT_COUNT, TERM_COUNT,
                   STOPPING, wk, unposted, exited, recorded, dispatched, regseq>>
    /\ UNCHANGED stackVars

\* sem_wait(STOP_SEM) returns once the semaphore is positive.
StopPosted == STOP_SEM > 0

\* leave_outer: sem_wait(STOP_SEM), sem_destroy of both semaphores (a destroyed
\* semaphore has no value until the next sem_init: written 0); then drop
\* returns and the mutex guard is released.
LeaveWait(g) ==
    /\ Running
    /\ gpc[g] = "leave_wait"
    /\ StopPosted
    /\ STOP_SEM' = STOP_SEM - 1
    /\ NOTIFY_SEM' = 0
    /\ mutex' = Free
    /\ gpc' = [gpc EXCEPT ![g] = "dropped"]
    /\ UNCHANGED <<gtypes, stateSome, slots, INT_COUNT, TERM_COUNT,
                   STOPPING, wk, unposted, exited, recorded, dispatched, regseq>>
    /\ UNCHANGED stackVars

Counter(k) == IF k = Interrupt THEN INT_COUNT ELSE TERM_COUNT

\* The signal handler is on the signal stack of a kind while the kind has a Slot
\* (enter in Slot::new, leave when the Slot is dropped).
Registered(k) == k \in DOMAIN slots

\* The trampoline of signal-stack stays installed for a signal number once a
\* handler was added for it.
Installed(k) == \E g \in Guards : gpc[g] # "unborn" /\ \E i \in 1 .. Len(gtypes[g]) : gtypes[g][i] = k

\* signal_handler, first half: fetch_add(1) on the counter of the signal.
Raise(k) ==
    /\ Running
    /\ Registered(k)
    /\ recorded[Interrupt] + recorded[Terminate] < MaxSignals
    /\ IF k = Interrupt
       THEN INT_COUNT' = INT_COUNT + 1 /\ UNCHANGED TERM_COUNT
       ELSE TERM_COUNT' = TERM_COUNT + 1 /\ UNCHANGED INT_COUNT
    /\ recorded' = [recorded EXCEPT ![k] = @ + 1]
    /\ unposted' = unposted + 1
    /\ UNCHANGED <<gpc, gtypes, stateSome, slots, mutex, NOTIFY_SEM, STOP_SEM, STOPPING,
                   wk, exited, dispatched, regseq>>
    /\ UNCHANGED stackVars

\* signal_handler, second half: sem_post(NOTIFY_SEM), return true.
Post ==
    /\ Running
    /\ unposted > 0
    /\ NOTIFY_SEM' = NOTIFY_SEM + 1
    /\ unposted' = unposted - 1
    /\ UNCHANGED <<gpc, gtypes, stateSome, slots, mutex, STOP_SEM, INT_COUNT, TERM_COUNT,
                   STOPPING, wk, exited, recorded, dispatched, regseq>>
    /\ UNCHANGED stackVars

\* A signal of a kind no Slot exists for. With the trampoline installed and the
\* stack empty, our_handler delegates to the previous handler, the default one
\* of a process that installed nothing else: SIGINT and SIGTERM are of the
\* terminate class, _exit(3). With no trampoline the default action of the
\* platform kills the process.
RaiseUnhandled(k) ==
    /\ Running
    /\ ~Registered(k)
    /\ Terminated(IF Installed(k) THEN "_exit(3)" ELSE "killed")
    /\ UNCHANGED stackVars

WorkerVarsOnly ==
    UNCHANGED <<gpc, gtypes, stateSome, slots, mutex, NOTIFY_SEM, STOP_SEM, INT_COUNT,
                TERM_COUNT, STOPPING, unposted, exited, recorded, dispatched, regseq>>

\* background_thread: while !STOPPING.load()
Check(w) ==
    /\ Running
    /\ wk[w].pc = "check"
    /\ wk' = [wk EXCEPT ![w].pc = IF STOPPING THEN "exit_store" ELSE "wait"]
    /\ WorkerVarsOnly
    /\ UNCHANGED stackVars

\* background_thread: sem_wait(NOTIFY_SEM)
Wait(w) ==
    /\ Running
    /\ wk[w].pc = "wait"
    /\ NOTIFY_SEM > 0
    /\ NOTIFY_SEM' = NOTIFY_SEM - 1
    /\ wk' = [wk EXCEPT ![w].pc = "int_load", ![w].got = <<0, 0>>, ![w].log = << >>]
    /\ UNCHANGED <<gpc, gtypes, stateSome, slots, mutex, STOP_SEM, INT_COUNT, TERM_COUNT,
                   STOPPING, unposted, exited, recorded, dispatched, regseq>>
    /\ UNCHANGED stackVars

\* load_and_reset: let res = counter.load()
Load(w, k) ==
    /\ Running
    /\ wk[w].pc = (IF k = Interrupt THEN "int_load" ELSE "term_load")
    /\ wk' = IF k = Interrupt
             THEN [wk EXCEPT ![w].pc = "int_sub", ![w].int_count = INT_COUNT]
             ELSE [wk EXCEPT ![w].pc = "term_sub", ![w].term_count = TERM_COUNT]
    /\ WorkerVarsOnly
    /\ UNCHANGED stackVars

\* Two loops that take turns, Terminate first.
LoopFromAlternates(r, from) ==
    IF from = Interrupt /\ r.term_count > 0 THEN [r EXCEPT !.pc = "term_loop"]
    ELSE IF r.int_count > 0 THEN [r EXCEPT !.pc = "int_loop"]
    ELSE IF r.term_count > 0 THEN [r EXCEPT !.pc = "term_loop"]
    ELSE [r EXCEPT !.pc = "check", !.got = <<0, 0>>, !.log = << >>]

\* Where background_thread goes on in its two for loops, from the first (from =
\* Interrupt) or from the second: to the next handle call, or, with both ranges
\* exhausted, back to the while condition (the history of the wake ends there).
LoopFrom(r, from) ==
    IF from = Interrupt /\ r.int_count > 0 THEN [r EXCEPT !.pc = "int_loop"]
    ELSE IF r.term_count > 0 THEN [r EXCEPT !.pc = "term_loop"]
    ELSE [r EXCEPT !.pc = "check", !.got = <<0, 0>>, !.log = << >>]

\* What load_and_reset leaves in a counter that holds c after res was loaded:
\* counter.fetch_sub(res).
Reset(c, res) == c - res

\* load_and_reset: counter.fetch_sub(res); res
Sub(w, k) ==
    /\ Running
    /\ wk[w].pc = (IF k = Interrupt THEN "int_sub" ELSE "term_sub")
    /\ IF k = Interrupt
       THEN /\ INT_COUNT' = Reset(INT_COUNT, wk[w].int_count)
            /\ wk' = [wk EXCEPT ![w].pc = "term_load", ![w].got[1] = wk[w].int_count]
            /\ UNCHANGED TERM_COUNT
       ELSE /\ TERM_COUNT' = Reset(TERM_COUNT, wk[w].term_count)
            /\ wk' = [wk EXCEPT ![w] = LoopFrom([@ EXCEPT !.got[2] = wk[w].term_count],
                                                Interrupt)]
            /\ UNCHANGED INT_COUNT
    /\ UNCHANGED <<gpc, gtypes, stateSome, slots, mutex, NOTIFY_SEM, STOP_SEM, STOPPING,
                   unposted, exited, recorded, dispatched, regseq>>
    /\ UNCHANGED stackVars

\* background_thread: one iteration of `for _ in 0..int_count` or of
\* `for _ in 0..term_count` calls handle.
Loop(w) ==
    /\ Running
    /\ \/ /\ wk[w].pc = "int_loop"
          /\ wk' = [wk EXCEPT ![w].pc = "h_lock", ![w].kind = Interrupt,
                              ![w].int_count = @ - 1, ![w].log = Append(@, Interrupt)]
          /\ dispatched' = [dispatched EXCEPT ![Interrupt] = @ + 1]
       \/ /\ wk[w].pc = "term_loop"
          /\ wk' = [wk EXCEPT ![w].pc = "h_lock", ![w].kind = Terminate,
                              ![w].term_count = @ - 1, ![w].log = Append(@, Terminate)]
          /\ dispatched' = [dispatched EXCEPT ![Terminate] = @ + 1]
    /\ UNCHANGED <<gpc, gtypes, stateSome, slots, mutex, NOTIFY_SEM, STOP_SEM, INT_COUNT,
                   TERM_COUNT, STOPPING, unposted, exited, recorded, regseq>>
    /\ UNCHANGED stackVars

\* A handle that takes slot.handlers.first().
LastHandlerTakesFirst(k) ==
    IF stateSome /\ k \in DOMAIN slots /\ slots[k] # << >> THEN slots[k][1] ELSE 0

\* handle: the handler `slot.handlers.last()` gives, 0 for None (also when the
\* State or the slot is None).
LastHandler(k) ==
    IF stateSome /\ k \in DOMAIN slots /\ slots[k] # << >>
    THEN slots[k][Len(slots[k])]
    ELSE 0

\* A handle that returns when it finds no handler.
NoHandlerReturns ==
    /\ wk' = [w \in Workers |->
                IF wk[w].pc = "h_lock" /\ LastHandler(wk[w].kind) = 0
                THEN [wk[w] EXCEPT !.pc = "check", !.kind = "none"] ELSE wk[w]]
    /\ UNCHANGED <<gpc, gtypes, stateSome, slots, mutex, NOTIFY_SEM, STOP_SEM, INT_COUNT,
                   TERM_COUNT, STOPPING, unposted, exited, recorded, dispatched, regseq>>

\* handle, no handler found: "Handler must have been removed, terminate the
\* process", std::process::exit(3).
NoHandler == Terminated("exit(3)")

\* handle: lock STATE, look the handler up and call it, or end the process when
\* there is none.
HandleLock(w) ==
    /\ Running
    /\ wk[w].pc = "h_lock"
    /\ MutexFree
    /\ IF LastHandler(wk[w].kind) # 0
       THEN /\ mutex' = ByWorker(w)
            /\ wk' = [wk EXCEPT ![w].pc = "h_call", ![w].cur = LastHandler(wk[w].kind)]
            /\ UNCHANGED <<gpc, gtypes, stateSome, slots, NOTIFY_SEM, STOP_SEM,
                           INT_COUNT, TERM_COUNT, STOPPING, unposted, exited, recorded,
                           dispatched, regseq>>
       ELSE NoHandler
    /\ UNCHANGED stackVars

\* The record of a background thread whose handle call returns to the loop it
\* was made from.
Returned(r) == LoopFrom([r EXCEPT !.kind = "none", !.cur = 0], r.kind)

\* handle: the handler returns; `return` releases the mutex guard.
HandleReturn(w) ==
    /\ Running
    /\ wk[w].pc = "h_call"
    /\ mutex' = Free
    /\ wk' = [wk EXCEPT ![w] = Returned(@)]
    /\ UNCHANGED <<gpc, gtypes, stateSome, slots, NOTIFY_SEM, STOP_SEM, INT_COUNT,
                   TERM_COUNT, STOPPING, unposted, exited, recorded, dispatched, regseq>>
    /\ UNCHANGED stackVars

\* handle: the handler panics; catch_unwind returns the Err.
HandlePanic(w) ==
    /\ Running
    /\ wk[w].pc = "h_call"
    /\ wk' = [wk EXCEPT ![w].pc = "h_caught"]
    /\ WorkerVarsOnly
    /\ UNCHANGED stackVars

\* A handle without catch_unwind: the panic unwinds through handle (releasing
\* the mutex guard) and ends the background thread.
AfterPanicUnwinds(r) == [Unborn EXCEPT !.pc = "dead"]

\* What handle does with the Err of catch_unwind: `let _ = ...; return;`
AfterPanic(r) == Returned(r)

\* handle: after a caught panic.
HandleCaught(w) ==
    /\ Running
    /\ wk[w].pc = "h_caught"
    /\ mutex' = Free
    /\ wk' = [wk EXCEPT ![w] = AfterPanic(@)]
    /\ UNCHANGED <<gpc, gtypes, stateSome, slots, NOTIFY_SEM, STOP_SEM, INT_COUNT,
                   TERM_COUNT, STOPPING, unposted, exited, recorded, dispatched, regseq>>
    /\ UNCHANGED stackVars

\* background_thread, after the loop: STOPPING.store(false)
ExitStore(w) ==
    /\ Running
    /\ wk[w].pc = "exit_store"
    /\ STOPPING' = FALSE
    /\ wk' = [wk EXCEPT ![w].pc = "exit_post"]
    /\ UNCHANGED <<gpc, gtypes, stateSome, slots, mutex, NOTIFY_SEM, STOP_SEM, INT_COUNT,
                   TERM_COUNT, unposted, exited, recorded, dispatched, regseq>>
    /\ UNCHANGED stackVars

\* background_thread, after the loop: sem_post(STOP_SEM); the thread ends.
ExitPost(w) ==
    /\ Running
    /\ wk[w].pc = "exit_post"
    /\ STOP_SEM' = STOP_SEM + 1
    /\ wk' = [wk EXCEPT ![w] = [Unborn EXCEPT !.pc = "exited"]]
    /\ UNCHANGED <<gpc, gtypes, stateSome, slots, mutex, NOTIFY_SEM, INT_COUNT,
                   TERM_COUNT, STOPPING, unposted, exited, recorded, dispatched, regseq>>
    /\ UNCHANGED stackVars

WorkerStep(w) ==
    \/ Check(w) \/ Wait(w)
    \/ \E k \in ShutdownType : Load(w, k) \/ Sub(w, k)
    \/ Loop(w) \/ HandleLock(w) \/ HandleReturn(w) \/ HandlePanic(w) \/ HandleCaught(w)
    \/ ExitStore(w) \/ ExitPost(w)

Next ==
    \/ \E g \in Guards, types \in TypeLists : New(g, types)
    \/ \E g \in Guards : Drop(g)
    \/ \E g \in Guards : LeaveStore(g)
    \/ \E g \in Guards : LeavePost(g)
    \/ \E g \in Guards : LeaveWait(g)
    \/ \E k \in ShutdownType : Raise(k)
    \/ Post
    \/ \E k \in ShutdownType : RaiseUnhandled(k)
    \/ \E w \in Workers : Check(w)
    \/ \E w \in Workers : Wait(w)
    \/ \E w \in Workers, k \in ShutdownType : Load(w, k)
    \/ \E w \in Workers, k \in ShutdownType : Sub(w, k)
    \/ \E w \in Workers : Loop(w)
    \/ \E w \in Workers : HandleLock(w)
    \/ \E w \in Workers : HandleReturn(w)
    \/ \E w \in Workers : HandlePanic(w)
    \/ \E w \in Workers : HandleCaught(w)
    \/ \E w \in Workers : ExitStore(w)
    \/ \E w \in Workers : ExitPost(w)

Spec == Init /\ [][Next]_vars


(***************************************************************************)
(* signal-stack: the handler table in its two-slot RwLock.                 *)
(***************************************************************************)

\* The process ends inside delegate, in the execution r of our_handler, of
\* which rec is kept (history).
StackTerminated(how, r, rec) ==
    /\ exited' = how
    /\ values' = [i \in {0, 1} |-> None]
    /\ rwlock' = [i \in {0, 1} |-> Unlocked]
    /\ rw_mutex' = 0
    /\ sigaction' = [s \in Signums |-> SIG_DFL]
    /\ th' = [t \in Threads |-> NoThread]
    /\ rd' = [q \in Deliveries |-> IF q = r THEN rec ELSE NoDelivery]
    /\ pushed' = [s \in Signums |-> << >>]
    /\ installs' = [s \in Signums |-> 0]
    /\ written' = <<None, None>>
    /\ order' = NoCommit
    /\ delegating' = [d \in Raisers |-> NotDelegating]

\* A write() that does not take the mutex.
RwMutexNeverHeld == TRUE

\* self.mutex.lock() returns once no writer holds the mutex.
RwMutexFree == rw_mutex = 0

\* spin::RwLock::try_read: fails while the WRITER or the UPGRADED bit is set.
TryRead(l) == ~l.writer /\ ~l.upgraded

\* A write lock taken without waiting for the readers to leave.
TryWriteAmongReaders(l) == ~l.writer /\ ~l.upgraded

\* spin::RwLock::write returns once the lock has no reader, writer or upgrader.
TryWrite(l) == l.readers = 0 /\ ~l.writer /\ ~l.upgraded

\* spin::RwLock::upgradeable_read returns once no WRITER or UPGRADED bit is set.
TryUpgradeableRead(l) == ~l.writer /\ ~l.upgraded

\* RwLockUpgradableGuard::upgrade returns once the upgrader is alone.
TryUpgrade(l) == l.upgraded /\ l.readers = 0

\* An insert that puts an empty table in place of the one there is.
GetOrInsertEmpty(T) == [some |-> TRUE, map |-> << >>]

\* guard.get_or_insert_with(Default::default)
GetOrInsert(T) == IF T.some THEN T ELSE [some |-> TRUE, map |-> << >>]

\* Slot::new(signum): an empty stack, prev = PlatformSigHandler::detect(signum).
SlotNew(signum) == [stack |-> << >>, prev |-> sigaction[signum]]

\* add_handler's loop body for one signum:
\* handlers.entry(signum).or_insert_with(Slot::new).stack.push(handler)
PushEntry(T, signum, h) ==
    LET slot == IF signum \in DOMAIN T.map THEN T.map[signum] ELSE SlotNew(signum)
    IN  [T EXCEPT !.map = [x \in DOMAIN T.map \cup {signum} |->
                             IF x = signum THEN [slot EXCEPT !.stack = Append(@, h)]
                             ELSE T.map[x]]]

\* A search that takes the top of the stack, whatever it holds.
RevFindTop(stack, ptr) == Len(stack)

\* remove_handler: slot.stack.iter().enumerate().rev().find(same pointer), the
\* last index holding the pointer, 0 for None.
RevFind(stack, ptr) ==
    IF \E i \in 1 .. Len(stack) : stack[i] = ptr
    THEN CHOOSE i \in 1 .. Len(stack) : stack[i] = ptr /\ \A j \in (i + 1) .. Len(stack) : stack[j] # ptr
    ELSE 0

\* A removal that takes the emptied slot out of the table, and the table away
\* with its last slot.
RemoveEntryDropsSlot(T, signum, ptr) ==
    IF ~T.some \/ signum \notin DOMAIN T.map \/ RevFind(T.map[signum].stack, ptr) = 0
    THEN T
    ELSE LET st == RemoveAt(T.map[signum].stack, RevFind(T.map[signum].stack, ptr))
         IN  IF st # << >> THEN [T EXCEPT !.map[signum].stack = st]
             ELSE IF DOMAIN T.map = {signum} THEN None
             ELSE [T EXCEPT !.map = [x \in DOMAIN T.map \ {signum} |-> T.map[x]]]

\* A removal that takes the whole slot of the signal number out of the table.
RemoveEntryTakesSlot(T, signum, ptr) ==
    IF ~T.some \/ signum \notin DOMAIN T.map THEN T
    ELSE [T EXCEPT !.map = [x \in DOMAIN T.map \ {signum} |-> T.map[x]]]

\* remove_handler's loop body for one signum: remove the entry found, if the
\* table has the slot and the slot has the entry; nothing otherwise.
RemoveEntry(T, signum, ptr) ==
    IF ~T.some \/ signum \notin DOMAIN T.map \/ RevFind(T.map[signum].stack, ptr) = 0
    THEN T
    ELSE [T EXCEPT !.map[signum].stack = RemoveAt(@, RevFind(@, ptr))]

\* add_handler's second write finds the table or the slot of one of the signal
\* numbers it installed gone: guard.as_mut().unwrap() or
\* handlers.get_mut(&signum).unwrap() panics.
UnwrapFails(T, prevs) ==
    ~T.some \/ \E n \in 1 .. Len(prevs) : prevs[n][1] \notin DOMAIN T.map

RECURSIVE StorePrevs(_, _)
\* add_handler's second loop: handlers.get_mut(&signum).unwrap().prev = prev
StorePrevs(T, prevs) ==
    IF prevs = << >> THEN T
    ELSE StorePrevs([T EXCEPT !.map[Head(prevs)[1]].prev = Head(prevs)[2]], Tail(prevs))

\* history: a removal of the pointer takes away the entry pushed last among
\* those of that pointer.
Unregister(entries, ptr) ==
    LET there == {i \in 1 .. Len(entries) : entries[i].handler = ptr}
    IN  IF there = {} THEN entries
        ELSE LET last == CHOOSE i \in there : \A j \in there : j <= i
             IN  SubSeq(entries, 1, last - 1) \o SubSeq(entries, last + 1, Len(entries))

StackOnly == UNCHANGED <<coordVars, exited>>

\* SignalHandlerGuard::new_unsafe(signums, handler) calls add_handler. The
\* handler is a new Arc (t) or a clone of the Arc of the first guard (1).
SignalHandlerGuardNew(t, signums, h) ==
    /\ Running
    /\ th[t].pc = "unborn"
    /\ \A u \in Threads : u < t => th[u].pc # "unborn"
    /\ th' = [th EXCEPT ![t] = [NoThread EXCEPT !.pc = "write", !.op = "add",
                                                !.signums = signums, !.handler = h, !.i = 1,
                                                !.listed = signums]]
    /\ UNCHANGED <<values, rwlock, rw_mutex, sigaction, rd, pushed, installs, written, order,
                   delegating>>
    /\ StackOnly

\* RwLock::write: lock the mutex, then write-lock values[1].
Write(t) ==
    /\ Running
    /\ th[t].pc = "write"
    /\ RwMutexFree
    /\ TryWrite(rwlock[1])
    /\ rw_mutex' = t
    /\ rwlock' = [rwlock EXCEPT ![1].writer = TRUE]
    /\ th' = [th EXCEPT ![t].pc = "mutate"]
    /\ UNCHANGED <<values, sigaction, rd, pushed, installs, written, order, delegating>>
    /\ StackOnly

\* add_handler, first write: one iteration of `for &signum in signums`.
Push(t) ==
    /\ Running
    /\ th[t].pc = "mutate" /\ th[t].op = "add"
    /\ LET signum == th[t].signums[th[t].i]
           T == GetOrInsert(values[1])
       IN  /\ values' = [values EXCEPT ![1] = PushEntry(T, signum, th[t].handler)]
           /\ pushed' = [pushed EXCEPT ![signum] =
                            Append(@, [handler |-> th[t].handler, by |-> t])]
           /\ th' = [th EXCEPT ![t].i = @ + 1,
                               ![t].install_c_handlers =
                                   IF signum \in DOMAIN T.map THEN @ ELSE Append(@, signum),
                               ![t].pc = IF th[t].i = Len(th[t].signums)
                                         THEN "commit" ELSE "mutate"]
    /\ UNCHANGED <<rwlock, rw_mutex, sigaction, rd, installs, written, order, delegating>>
    /\ StackOnly

\* add_handler, second write: store the previous handlers install returned.
SetPrev(t) ==
    /\ Running
    /\ th[t].pc = "mutate" /\ th[t].op = "set"
    /\ IF UnwrapFails(values[1], th[t].prevs)
       THEN /\ th' = [th EXCEPT ![t].pc = "commit", ![t].op = "unwind"]
            /\ UNCHANGED values
       ELSE /\ values' = [values EXCEPT ![1] = StorePrevs(@, th[t].prevs)]
            /\ th' = [th EXCEPT ![t].pc = "commit"]
    /\ UNCHANGED <<rwlock, rw_mutex, sigaction, rd, pushed, installs, written, order, delegating>>
    /\ StackOnly

\* remove_handler: one iteration of `for &signum in signums`, or none of them
\* when the table is None.
Remove(t) ==
    /\ Running
    /\ th[t].pc = "mutate" /\ th[t].op = "remove"
    /\ IF ~values[1].some
       THEN /\ th' = [th EXCEPT ![t].pc = "commit"]
            /\ UNCHANGED <<values, pushed>>
       ELSE LET signum == th[t].signums[th[t].i]
            IN  /\ values' = [values EXCEPT ![1] = RemoveEntry(@, signum, th[t].handler)]
                /\ pushed' = [pushed EXCEPT ![signum] = Unregister(@, th[t].handler)]
                /\ th' = [th EXCEPT ![t].i = @ + 1,
                                    ![t].pc = IF th[t].i = Len(th[t].signums)
                                              THEN "commit" ELSE "mutate"]
    /\ UNCHANGED <<rwlock, rw_mutex, sigaction, rd, installs, written, order, delegating>>
    /\ StackOnly

\* WriteGuard::drop, `let value = guard.clone(); drop(guard)`: clone the value
\* and release values[1].
Commit(t) ==
    /\ Running
    /\ th[t].pc = "commit"
    /\ rwlock' = [rwlock EXCEPT ![1].writer = FALSE]
    /\ th' = [th EXCEPT ![t].pc = "upgradeable", ![t].value = values[1]]
    /\ written' = <<written[2], values[1]>>
    /\ order' = [order EXCEPT !.commits = @ + 1, !.at[1] = order.commits + 1,
                              !.by[t] = order.commits + 1]
    /\ UNCHANGED <<values, rw_mutex, sigaction, rd, pushed, installs, delegating>>
    /\ StackOnly

\* WriteGuard::drop, self.other.upgradeable_read(): from here no try_read of
\* values[0] succeeds.
UpgradeableRead(t) ==
    /\ Running
    /\ th[t].pc = "upgradeable"
    /\ TryUpgradeableRead(rwlock[0])
    /\ rwlock' = [rwlock EXCEPT ![0].upgraded = TRUE]
    /\ th' = [th EXCEPT ![t].pc = "upgrade"]
    /\ UNCHANGED <<values, rw_mutex, sigaction, rd, pushed, installs, written, order, delegating>>
    /\ StackOnly

\* Where the user thread goes on after a write; nothing is left of a guard
\* that was dropped.
AfterWrite(r) ==
    IF r.op = "add"
    THEN [r EXCEPT !.value = None, !.i = 1,
                   !.pc = IF r.install_c_handlers = << >> THEN "live" ELSE "install"]
    ELSE IF r.op = "set"
    THEN [r EXCEPT !.value = None, !.i = 1, !.pc = "live", !.op = "none",
                   !.install_c_handlers = << >>, !.prevs = << >>]
    ELSE IF r.op = "remove" THEN [NoThread EXCEPT !.pc = "dropped"]
    ELSE IF r.op = "remove_again" THEN [NoThread EXCEPT !.pc = "removed_again"]
    ELSE [NoThread EXCEPT !.pc = "panicked"]

\* WriteGuard::drop, .upgrade() and the assignment: store the clone into values[0],
\* release it; then the mutex guard is dropped.
Upgrade(t) ==
    /\ Running
    /\ th[t].pc = "upgrade"
    /\ TryUpgrade(rwlock[0])
    /\ values' = [values EXCEPT ![0] = th[t].value]
    /\ rwlock' = [rwlock EXCEPT ![0].upgraded = FALSE]
    /\ rw_mutex' = 0
    /\ th' = [th EXCEPT ![t] = AfterWrite(@)]
    /\ order' = [order EXCEPT !.at[0] = order.by[t]]
    /\ UNCHANGED <<sigaction, rd, pushed, installs, written, delegating>>
    /\ StackOnly

\* add_handler: PlatformSigHandler::ours().install(signum) for one of the
\* install_c_handlers; sigaction returns the handler that was installed.
Install(t) ==
    /\ Running
    /\ th[t].pc = "install"
    /\ LET signum == th[t].install_c_handlers[th[t].i]
       IN  /\ sigaction' = [sigaction EXCEPT ![signum] = handler_thunk]
           /\ installs' = [installs EXCEPT ![signum] = @ + 1]
           /\ th' = [th EXCEPT ![t].prevs = Append(@, <<signum, sigaction[signum]>>),
                               ![t].i = @ + 1,
                               ![t].pc = IF th[t].i = Len(th[t].install_c_handlers)
                                         THEN "write" ELSE "install",
                               ![t].op = IF th[t].i = Len(th[t].install_c_handlers)
                                         THEN "set" ELSE "add"]
    /\ UNCHANGED <<values, rwlock, rw_mutex, rd, pushed, written, order, delegating>>
    /\ StackOnly

\* SignalHandlerGuard::forget: signums = &[], the drop that follows removes
\* nothing.
SignalForget(t) ==
    /\ Running
    /\ th[t].pc = "live"
    /\ th' = [th EXCEPT ![t].pc = "forgotten", ![t].signums = << >>, ![t].op = "none"]
    /\ UNCHANGED <<values, rwlock, rw_mutex, sigaction, rd, pushed, installs, written, order,
                   delegating>>
    /\ StackOnly

\* SignalHandlerGuard::drop calls remove_handler(self.signums, &self.handler_id).
SignalDrop(t) ==
    /\ Running
    /\ th[t].pc = "live"
    /\ th' = [th EXCEPT ![t].pc = "write", ![t].op = "remove", ![t].i = 1]
    /\ UNCHANGED <<values, rwlock, rw_mutex, sigaction, rd, pushed, installs, written, order,
                   delegating>>
    /\ StackOnly

\* stack.iter() in the order dispatch must not walk it.
RevKeepsOrder(stack) == stack

\* slot.stack.iter().rev()
Rev(stack) == [n \in 1 .. Len(stack) |-> stack[Len(stack) - n + 1]]

RECURSIVE Walk(_, _)
\* our_handler: `for item in ... { if item(signum) { return; } }` on callbacks
\* of which the n-th returns res[n]: the calls made, each with what it returned.
Walk(items, res) ==
    IF items = << >> THEN << >>
    ELSE IF Head(res) THEN << <<Head(items), TRUE>> >>
    ELSE << <<Head(items), FALSE>> >> \o Walk(Tail(items), Tail(res))

\* our_handler left its loop by `return`.
Consumed(calls) == calls # << >> /\ calls[Len(calls)][2]

\* Default actions that differ from those of delegate's match.
DefaultActionKills(signum) == "abort"

\* delegate, SIG_DFL: the default action by signal number.
DefaultAction(signum) ==
    IF signum \in DoNothingSignals THEN "nothing"
    ELSE IF signum \in StopSignals THEN "raise(SIGSTOP)"
    ELSE IF signum \in AbortSignals THEN "abort"
    ELSE IF signum \in TerminateSignals THEN "_exit(3)"
    ELSE "reraise"

\* PlatformSigHandler::delegate (unix): what it does for the handler it holds.
DelegateAction(prev, signum) ==
    IF prev = SIG_DFL THEN DefaultAction(signum)
    ELSE IF prev = SIG_IGN THEN "nothing"
    ELSE IF prev = SigHandlerPtr THEN "handler(signum)"
    ELSE "handler(signum, info, ucontext)"

\* The highest number a read had returned with when the read of delivery r
\* began: a read begins with its first try_read.
After(r) == IF rd[r].pc = "idle" THEN order.returned ELSE rd[r].after

\* The history once read() has returned a ReadGuard of values[idx].
ReadReturned(idx) ==
    [order EXCEPT !.returned = IF order.at[idx] > @ THEN order.at[idx] ELSE @]

\* our_handler on the table T that read() gave it from values[idx], with
\* callbacks that return res: walk the stack of the slot, delegate to slot.prev
\* when no callback returned true; nothing when the table has no slot for the
\* signal number. It ends the process or comes to its return.
our_handler(r, signum, idx, T, res) ==
    IF T.some /\ signum \in DOMAIN T.map
    THEN LET calls == Walk(Rev(T.map[signum].stack), res)
             act == DelegateAction(T.map[signum].prev, signum)
         IN  IF ~Consumed(calls) /\ act \in {"abort", "_exit(3)"}
             THEN StackTerminated(act, r, [pc |-> "exit", signum |-> signum, idx |-> idx,
                                           calls |-> calls, delegated |-> <<act>>,
                                           saw |-> order.at[idx], after |-> After(r)])
             ELSE /\ rd' = [rd EXCEPT ![r] =
                              [pc |-> "ret", signum |-> signum, idx |-> idx, calls |-> calls,
                               delegated |-> IF Consumed(calls) THEN << >> ELSE <<act>>,
                               saw |-> order.at[idx], after |-> After(r)]]
                  /\ rwlock' = [rwlock EXCEPT ![idx].readers = @ + 1]
                  /\ order' = ReadReturned(idx)
                  /\ UNCHANGED <<values, rw_mutex, sigaction, th, pushed, installs, written,
                                 exited, delegating>>
    ELSE /\ rd' = [rd EXCEPT ![r] = [NoDelivery EXCEPT !.pc = "ret", !.signum = signum,
                                                       !.idx = idx, !.saw = order.at[idx],
                                                       !.after = After(r)]]
         /\ rwlock' = [rwlock EXCEPT ![idx].readers = @ + 1]
         /\ order' = ReadReturned(idx)
         /\ UNCHANGED <<values, rw_mutex, sigaction, th, pushed, installs, written, exited,
                        delegating>>

\* What the callbacks of the slot of a signal number may return, one value for
\* each item of the stack.
Results(T, signum) ==
    IF T.some /\ signum \in DOMAIN T.map
    THEN [1 .. Len(T.map[signum].stack) -> BOOLEAN]
    ELSE {<< >>}

\* RwLock::read, one try_read of `for value in self.values.iter().cycle()` on
\* values[idx]; our_handler runs with the ReadGuard it returns.
read(r, signum, idx) ==
    IF TryRead(rwlock[idx])
    THEN \E res \in Results(values[idx], signum) : our_handler(r, signum, idx, values[idx], res)
    ELSE /\ rd' = [rd EXCEPT ![r] = [NoDelivery EXCEPT !.pc = "read", !.signum = signum,
                                                       !.idx = 1 - idx, !.after = After(r)]]
         /\ UNCHANGED <<values, rwlock, rw_mutex, sigaction, th, pushed, installs, written, order,
                        exited, delegating>>

\* The platform delivers a signal to handler_thunk, which calls our_handler:
\* HANDLERS.read() tries values[0] first. (A delivery that interrupts a user
\* thread inside a write runs while that thread takes no step.)
Deliver(r, signum) ==
    /\ Running
    /\ rd[r].pc = "idle"
    /\ \A q \in Deliveries : q < r => rd[q].pc # "idle"
    /\ sigaction[signum] = handler_thunk
    /\ read(r, signum, 0)
    /\ UNCHANGED coordVars

\* RwLock::read: the try_read after one that failed.
Read(r) ==
    /\ Running
    /\ rd[r].pc = "read"
    /\ read(r, rd[r].signum, rd[r].idx)
    /\ UNCHANGED coordVars

\* our_handler returns: the ReadGuard is dropped.
Return(r) ==
    /\ Running
    /\ rd[r].pc = "ret"
    /\ rwlock' = [rwlock EXCEPT ![rd[r].idx].readers = @ - 1]
    /\ rd' = [rd EXCEPT ![r] = [NoDelivery EXCEPT !.pc = "done"]]
    /\ UNCHANGED <<values, rw_mutex, sigaction, th, pushed, installs, written, order, delegating>>
    /\ StackOnly

\* The handlers of a process that had set one for SIGINT before the signal
\* stack is first used: what the first install of a signal number replaces.
Original == [s \in Signums |-> IF s = SIGINT THEN SigHandlerPtr ELSE SIG_DFL]

StackInit ==
    /\ CoordinatorUnused
    /\ exited = "no"
    /\ StackUnused
    /\ sigaction = Original

\* The `signums` slice of the guards whose writes are followed step by step.
CellSignums == <<SIGINT, SIGTERM>>

\* The signal stack with every step of a write a step of its own: guards for
\* the signal numbers of CellSignums, each with an Arc of its own.
CellNext ==
    \/ \E t \in Threads : SignalHandlerGuardNew(t, CellSignums, t)
    \/ \E t \in Threads : Write(t)
    \/ \E t \in Threads : Push(t)
    \/ \E t \in Threads : SetPrev(t)
    \/ \E t \in Threads : Remove(t)
    \/ \E t \in Threads : Commit(t)
    \/ \E t \in Threads : UpgradeableRead(t)
    \/ \E t \in Threads : Upgrade(t)
    \/ \E t \in Threads : Install(t)
    \/ \E t \in Threads : SignalDrop(t)
    \/ \E r \in Deliveries, signum \in Signums : Deliver(r, signum)
    \/ \E r \in Deliveries : Read(r)
    \/ \E r \in Deliveries : Return(r)

CellSpec == StackInit /\ [][CellNext]_vars

\* handler_thunk is entered again after an execution of our_handler that
\* returned: the platform delivers a further signal.
Redeliver(r) ==
    /\ Running
    /\ rd[r].pc = "done"
    /\ rd' = [rd EXCEPT ![r] = NoDelivery]
    /\ UNCHANGED <<values, rwlock, rw_mutex, sigaction, th, pushed, installs, written, order,
                   delegating>>
    /\ StackOnly

\* The two-slot cell under any number of reads, one after the other.
ReadsNext ==
    \/ CellNext
    \/ \E r \in Deliveries : Redeliver(r)

ReadsSpec == StackInit /\ [][ReadsNext]_vars

(***************************************************************************)
(* signal-stack with a write in two steps: what it does to values[1], and  *)
(* its commit to values[0].                                                *)
(***************************************************************************)

RECURSIVE PushEntries(_, _, _)
\* add_handler's loop `for &signum in signums`.
PushEntries(T, signums, h) ==
    IF signums = << >> THEN T
    ELSE PushEntries(PushEntry(T, Head(signums), h), Tail(signums), h)

\* An add_handler that installs the trampoline for every signal number listed.
InstallCHandlersAll(T, signums) == signums

RECURSIVE InstallCHandlers(_, _)
\* The install_c_handlers of that loop: the signal numbers or_insert_with made
\* a Slot for.
InstallCHandlers(T, signums) ==
    IF signums = << >> THEN << >>
    ELSE IF Head(signums) \in DOMAIN T.map THEN InstallCHandlers(T, Tail(signums))
    ELSE <<Head(signums)>> \o InstallCHandlers(PushEntry(T, Head(signums), 0), Tail(signums))

RECURSIVE RemoveEntries(_, _, _)
\* remove_handler's loop `for &signum in signums`.
RemoveEntries(T, signums, ptr) ==
    IF signums = << >> THEN T
    ELSE RemoveEntries(RemoveEntry(T, Head(signums), ptr), Tail(signums), ptr)

RECURSIVE PushedBy(_, _, _, _)
\* history of PushEntries
PushedBy(p, signums, h, t) ==
    IF signums = << >> THEN p
    ELSE PushedBy([p EXCEPT ![Head(signums)] =
                      Append(@, [handler |-> h, by |-> t])],
                  Tail(signums), h, t)

RECURSIVE UnregisterAll(_, _, _)
\* history of RemoveEntries
UnregisterAll(p, signums, ptr) ==
    IF signums = << >> THEN p
    ELSE UnregisterAll([p EXCEPT ![Head(signums)] = Unregister(@, ptr)], Tail(signums), ptr)

\* RwLock::write, the mutation of values[1] that leaves T in it, and the first
\* half of WriteGuard::drop (Write, the steps on values[1], Commit,
\* UpgradeableRead and Upgrade in one).
WriteGuard(t, T) ==
    /\ RwMutexFree
    /\ TryWrite(rwlock[1])
    /\ TryUpgradeableRead(rwlock[0])
    /\ rw_mutex' = t
    /\ values' = [values EXCEPT ![1] = T]
    /\ rwlock' = [rwlock EXCEPT ![0].upgraded = TRUE]
    /\ written' = <<written[2], T>>
    /\ order' = [order EXCEPT !.commits = @ + 1, !.at[1] = order.commits + 1,
                              !.by[t] = order.commits + 1]

\* SignalHandlerGuard::new_unsafe(signums, handler): add_handler up to its
\* first write. The handler is a new Arc (t) or a clone of the Arc of the first
\* guard (1).
add_handler(t, signums, h) ==
    /\ Running
    /\ th[t].pc = "unborn"
    /\ \A u \in Threads : u < t => th[u].pc # "unborn"
    /\ LET T == PushEntries(GetOrInsert(values[1]), signums, h)
       IN  /\ WriteGuard(t, T)
           /\ th' = [th EXCEPT ![t] =
                       [NoThread EXCEPT !.pc = "upgrade", !.op = "add", !.signums = signums,
                                        !.handler = h, !.i = 1, !.value = T,
                                        !.listed = signums,
                                        !.install_c_handlers =
                                            InstallCHandlers(GetOrInsert(values[1]), signums)]]
    /\ pushed' = PushedBy(pushed, signums, h, t)
    /\ UNCHANGED <<sigaction, rd, installs, delegating>>
    /\ StackOnly

\* add_handler's second write.
add_handler_prevs(t) ==
    /\ Running
    /\ th[t].pc = "write" /\ th[t].op = "set"
    /\ IF UnwrapFails(values[1], th[t].prevs)
       THEN /\ WriteGuard(t, values[1])
            /\ th' = [th EXCEPT ![t].pc = "upgrade", ![t].op = "unwind", ![t].value = values[1]]
       ELSE LET T == StorePrevs(values[1], th[t].prevs)
            IN  /\ WriteGuard(t, T)
                /\ th' = [th EXCEPT ![t].pc = "upgrade", ![t].value = T]
    /\ UNCHANGED <<sigaction, rd, pushed, installs, delegating>>
    /\ StackOnly

\* SignalHandlerGuard::drop: remove_handler(self.signums, &self.handler_id) up
\* to its write.
remove_handler(t) ==
    /\ Running
    /\ th[t].pc = "live"
    /\ LET T == IF values[1].some
                THEN RemoveEntries(values[1], th[t].signums, th[t].handler)
                ELSE values[1]
       IN  /\ WriteGuard(t, T)
           /\ th' = [th EXCEPT ![t].pc = "upgrade", ![t].op = "remove", ![t].value = T]
    /\ pushed' = IF values[1].some THEN UnregisterAll(pushed, th[t].signums, th[t].handler)
                 ELSE pushed
    /\ UNCHANGED <<sigaction, rd, installs, delegating>>
    /\ StackOnly

StackNext ==
    \/ \E t \in Threads, signums \in SignumLists :
          \E h \in {1, t} : add_handler(t, signums, h)
    \/ \E t \in Threads : add_handler_prevs(t)
    \/ \E t \in Threads : remove_handler(t)
    \/ \E t \in Threads : Upgrade(t)
    \/ \E t \in Threads : Install(t)
    \/ \E r \in Deliveries, signum \in Signums : Deliver(r, signum)
    \/ \E r \in Deliveries : Read(r)
    \/ \E r \in Deliveries : Return(r)

StackSpec == StackInit /\ [][StackNext]_vars

(***************************************************************************)
(* Guards that may be forgotten: a process that makes ShutdownGuards, or   *)
(* one that makes SignalHandlerGuards of its own.                          *)
(***************************************************************************)

\* No ShutdownGuard was constructed.
NoShutdownGuard == \A g \in Guards : gpc[g] = "unborn"

\* No SignalHandlerGuard was constructed by the user.
NoSignalHandlerGuard == \A t \in Threads : th[t].pc = "unborn"

ForgetNext ==
    \/ NoSignalHandlerGuard /\ \E g \in Guards, types \in TypeLists : New(g, types)
    \/ NoSignalHandlerGuard /\ \E k \in ShutdownType : RaiseUnhandled(k)
    \/ \E g \in Guards : Forget(g)
    \/ \E g \in Guards : Drop(g)
    \/ \E g \in Guards : LeaveStore(g)
    \/ \E g \in Guards : LeavePost(g)
    \/ \E g \in Guards : LeaveWait(g)
    \/ \E k \in ShutdownType : Raise(k)
    \/ Post
    \/ \E w \in Workers : Check(w)
    \/ \E w \in Workers : Wait(w)
    \/ \E w \in Workers, k \in ShutdownType : Load(w, k)
    \/ \E w \in Workers, k \in ShutdownType : Sub(w, k)
    \/ \E w \in Workers : Loop(w)
    \/ \E w \in Workers : HandleLock(w)
    \/ \E w \in Workers : HandleReturn(w)
    \/ \E w \in Workers : HandlePanic(w)
    \/ \E w \in Workers : HandleCaught(w)
    \/ \E w \in Workers : ExitStore(w)
    \/ \E w \in Workers : ExitPost(w)
    \/ NoShutdownGuard /\ \E t \in Threads, signums \in SignumLists :
                             \E h \in {1, t} : add_handler(t, signums, h)
    \/ \E t \in Threads : add_handler_prevs(t)
    \/ \E t \in Threads : remove_handler(t)
    \/ \E t \in Threads : SignalForget(t)
    \/ \E t \in Threads : Upgrade(t)
    \/ \E t \in Threads : Install(t)
    \/ \E r \in Deliveries, signum \in Signums : Deliver(r, signum)
    \/ \E r \in Deliveries : Read(r)
    \/ \E r \in Deliveries : Return(r)

ForgetSpec == Init /\ [][ForgetNext]_vars

(***************************************************************************)
(* delegate for each kind of previous handler and each signal number: a    *)
(* process that had the same kind of handler for every signal, and guards  *)
(* for one signal number at a time.                                        *)
(***************************************************************************)

DelegateInit ==
    /\ CoordinatorUnused
    /\ StackUnused
    /\ \E kind \in Foreign : sigaction = [s \in Signums |-> kind]

\* SignalHandlerGuard::new_unsafe(&[signum], handler), for the signal number
\* the table has a slot for when it has one.
NewForOne(t, signum) ==
    /\ values[1].some => DOMAIN values[1].map \subseteq {signum}
    /\ add_handler(t, <<signum>>, t)

DelegateNext ==
    \/ \E t \in Threads, signum \in Signums : NewForOne(t, signum)
    \/ \E t \in Threads : add_handler_prevs(t)
    \/ \E t \in Threads : remove_handler(t)
    \/ \E t \in Threads : Upgrade(t)
    \/ \E t \in Threads : Install(t)
    \/ \E r \in Deliveries, signum \in Signums : Deliver(r, signum)
    \/ \E r \in Deliveries : Read(r)
    \/ \E r \in Deliveries : Return(r)

DelegateSpec == DelegateInit /\ [][DelegateNext]_vars

(***************************************************************************)
(* The last arm of delegate, `_ =>`: a previous handler SIG_DFL for a       *)
(* signal whose default action the code does not name. Each sigaction call *)
(* is a step; the signal may be delivered to several threads, and threads  *)
(* that are not of this library may call sigaction while delegate is       *)
(* between its first and its second install.                               *)
(***************************************************************************)

\* The copy of the table that a read() beginning now returns.
ReadNow == IF TryRead(rwlock[0]) THEN values[0] ELSE values[1]

\* handler_thunk(signum) on thread d: our_handler finds the slot, no callback
\* returns true, and slot.prev.delegate(signum) comes to the last arm.
DelegateUnnamed(d, signum) ==
    /\ Running
    /\ delegating[d].pc \in {"idle", "returned"}
    /\ sigaction[signum] = handler_thunk
    /\ \E i \in {0, 1} : TryRead(rwlock[i])
    /\ ReadNow.some /\ signum \in DOMAIN ReadNow.map
    /\ DelegateAction(ReadNow.map[signum].prev, signum) = "reraise"
    /\ delegating' = [delegating EXCEPT ![d] = [pc |-> "install", signum |-> signum,
                                                prev |-> "none"]]
    /\ UNCHANGED <<values, rwlock, rw_mutex, sigaction, th, rd, pushed, installs, written, order>>
    /\ StackOnly

\* `let prev = self.install(signum);` with self = SIG_DFL: sigaction returns
\* what was installed.
InstallDefault(d) ==
    /\ Running
    /\ delegating[d].pc = "install"
    /\ sigaction' = [sigaction EXCEPT ![delegating[d].signum] = SIG_DFL]
    /\ delegating' = [delegating EXCEPT ![d].pc = "raise",
                                        ![d].prev = sigaction[delegating[d].signum]]
    /\ UNCHANGED <<values, rwlock, rw_mutex, th, rd, pushed, installs, written, order>>
    /\ StackOnly

\* `libc::raise(signum);`: the trampoline runs with every signal blocked
\* (sigfillset in ours()), so the signal stays pending on the thread.
ReRaise(d) ==
    /\ Running
    /\ delegating[d].pc = "raise"
    /\ delegating' = [delegating EXCEPT ![d].pc = "reinstall"]
    /\ UNCHANGED <<values, rwlock, rw_mutex, sigaction, th, rd, pushed, installs, written, order>>
    /\ StackOnly

\* `if prev.install(signum).0.sa_sigaction != self.0.sa_sigaction`: prev is
\* installed again; a handler other than SIG_DFL found in its place is the
\* race, and without one delegate returns.
InstallPrev(d) ==
    /\ Running
    /\ delegating[d].pc = "reinstall"
    /\ sigaction' = [sigaction EXCEPT ![delegating[d].signum] = delegating[d].prev]
    /\ delegating' = [delegating EXCEPT ![d].pc =
                          IF sigaction[delegating[d].signum] # SIG_DFL THEN "ours"
                          ELSE "returned"]
    /\ UNCHANGED <<values, rwlock, rw_mutex, th, rd, pushed, installs, written, order>>
    /\ StackOnly

\* `Self::ours().install(signum);`, and delegate returns.
InstallOurs(d) ==
    /\ Running
    /\ delegating[d].pc = "ours"
    /\ sigaction' = [sigaction EXCEPT ![delegating[d].signum] = handler_thunk]
    /\ delegating' = [delegating EXCEPT ![d].pc = "returned"]
    /\ UNCHANGED <<values, rwlock, rw_mutex, th, rd, pushed, installs, written, order>>
    /\ StackOnly

\* The threads of a call of delegate between `self.install(signum)` and
\* `prev.install(signum)`.
InWindow(signum) ==
    {d \in Raisers : delegating[d].signum = signum /\ delegating[d].pc \in {"raise", "reinstall"}}

\* A thread that is not of this library calls sigaction(signum, h) while a
\* call of delegate for the signal is in that window.
ForeignInstall(signum, h) ==
    /\ Running
    /\ InWindow(signum) # {}
    /\ sigaction[signum] # h
    /\ sigaction' = [sigaction EXCEPT ![signum] = h]
    /\ UNCHANGED <<values, rwlock, rw_mutex, th, rd, pushed, installs, written, order,
                   delegating>>
    /\ StackOnly

\* Guards for one signal number without a named default action, deliveries
\* of it to several threads, and foreign sigaction calls.
UnnamedNext ==
    \/ \E t \in Threads, signum \in UnnamedSignals : NewForOne(t, signum)
    \/ \E t \in Threads : add_handler_prevs(t)
    \/ \E t \in Threads : remove_handler(t)
    \/ \E t \in Threads : Upgrade(t)
    \/ \E t \in Threads : Install(t)
    \/ \E d \in Raisers, signum \in Signums : DelegateUnnamed(d, signum)
    \/ \E d \in Raisers : InstallDefault(d)
    \/ \E d \in Raisers : ReRaise(d)
    \/ \E d \in Raisers : InstallPrev(d)
    \/ \E d \in Raisers : InstallOurs(d)
    \/ \E signum \in Signums, h \in Foreign : ForeignInstall(signum, h)

UnnamedSpec == StackInit /\ [][UnnamedNext]_vars

(***************************************************************************)
(* A removal made a second time: the drop of a guard run again after it    *)
(* removed its handler (a guard duplicated by unsafe code).                *)
(***************************************************************************)

\* remove_handler(signums, handler_id) called for a guard that was dropped, with
\* an identity that none of the stacks of its signal numbers holds; it
\* returns.
RemoveAgain(t, signums, h) ==
    /\ Running
    /\ th[t].pc = "dropped"
    /\ \A n \in 1 .. Len(signums) :
          IF values[1].some /\ signums[n] \in DOMAIN values[1].map
          THEN RevFind(values[1].map[signums[n]].stack, h) = 0
          ELSE TRUE
    /\ LET T == IF values[1].some THEN RemoveEntries(values[1], signums, h) ELSE values[1]
       IN  /\ WriteGuard(t, T)
           /\ th' = [th EXCEPT ![t].pc = "upgrade", ![t].op = "remove_again", ![t].value = T]
    /\ pushed' = IF values[1].some THEN UnregisterAll(pushed, signums, h) ELSE pushed
    /\ UNCHANGED <<sigaction, rd, installs, delegating>>
    /\ StackOnly

\* ShutdownGuard::drop run again for a guard that was dropped: it panics in one
\* of its two expects, or goes through its loop and returns.
DropAgain(g) ==
    /\ Running
    /\ gpc[g] = "dropped"
    /\ gtypes[g] # << >>
    /\ MutexFree
    /\ IF ~stateSome \/ ExpectFails(slots, gtypes[g], g)
       THEN /\ gpc' = [gpc EXCEPT ![g] = "panicked"]
            /\ UNCHANGED slots
       ELSE /\ gpc' = [gpc EXCEPT ![g] = "dropped_again"]
            /\ slots' = RemoveAll(slots, gtypes[g], g)
    /\ UNCHANGED <<gtypes, stateSome, mutex, NOTIFY_SEM, STOP_SEM, INT_COUNT, TERM_COUNT,
                   STOPPING, wk, unposted, exited, recorded, dispatched, regseq>>
    /\ UNCHANGED stackVars

RemoveAgainNext ==
    \/ NoSignalHandlerGuard /\ \E g \in Guards, types \in TypeLists : New(g, types)
    \/ NoSignalHandlerGuard /\ \E k \in ShutdownType : RaiseUnhandled(k)
    \/ \E g \in Guards : Drop(g)
    \/ \E g \in Guards : DropAgain(g)
    \/ \E g \in Guards : LeaveStore(g)
    \/ \E g \in Guards : LeavePost(g)
    \/ \E g \in Guards : LeaveWait(g)
    \/ \E k \in ShutdownType : Raise(k)
    \/ Post
    \/ \E w \in Workers : Check(w)
    \/ \E w \in Workers : Wait(w)
    \/ \E w \in Workers, k \in ShutdownType : Load(w, k)
    \/ \E w \in Workers, k \in ShutdownType : Sub(w, k)
    \/ \E w \in Workers : Loop(w)
    \/ \E w \in Workers : HandleLock(w)
    \/ \E w \in Workers : HandleReturn(w)
    \/ \E w \in Workers : HandlePanic(w)
    \/ \E w \in Workers : HandleCaught(w)
    \/ \E w \in Workers : ExitStore(w)
    \/ \E w \in Workers : ExitPost(w)
    \/ NoShutdownGuard /\ \E t \in Threads, signums \in SignumLists :
                             \E h \in {1, t} : add_handler(t, signums, h)
    \/ \E t \in Threads : add_handler_prevs(t)
    \/ \E t \in Threads : remove_handler(t)
    \/ \E t \in Threads, signums \in SignumLists :
          \E h \in {1, t} : RemoveAgain(t, signums, h)
    \/ \E t \in Threads : Upgrade(t)
    \/ \E t \in Threads : Install(t)
    \/ \E r \in Deliveries, signum \in Signums : Deliver(r, signum)
    \/ \E r \in Deliveries : Read(r)
    \/ \E r \in Deliveries : Return(r)

RemoveAgainSpec == Init /\ [][RemoveAgainNext]_vars

(***************************************************************************)
(* What the claims speak of.                                               *)
(***************************************************************************)

\* The exit code of a process that ended by exit or _exit.
ExitCode == IF exited \in {"exit(3)", "_exit(3)"} THEN 3 ELSE -1

Kinds(g) == {gtypes[g][i] : i \in 1 .. Len(gtypes[g])}

\* Guards whose callback is registered for kind k: constructed with k among
\* their types and not dropped (a guard inside drop has its callback removed).
RegisteredFor(k) == {g \in Guards : gpc[g] \in {"live", "forgotten"} /\ k \in Kinds(g)}

\* Position of guard g in the order of registration.
RegPos(g) == CHOOSE i \in 1 .. Len(regseq) : regseq[i] = g

\* The background threads that are inside a user callback.
InCallback == {w \in Workers : wk[w].pc \in {"h_call", "h_caught"}}

Alive == {w \in Workers : wk[w].pc \notin {"unborn", "exited", "dead"}}

\* A guard is inside the stop sequence of leave_outer.
Leaving(g) == gpc[g] \in {"leave_store", "leave_post", "leave_wait"}

\* C1: a dispatch of kind K invokes the most recently registered callback among
\* those still registered for K (whatever guards were created and dropped
\* before), and no other.
C1_NewestRegisteredInvoked ==
    \A w \in InCallback :
        /\ wk[w].cur \in RegisteredFor(wk[w].kind)
        /\ \A g \in RegisteredFor(wk[w].kind) : RegPos(g) <= RegPos(wk[w].cur)

\* C1: the newest guard of a kind was dropped and a dispatch invokes the older one.
C1_Witness ==
    \E w \in InCallback :
        /\ wk[w].cur = 1
        /\ gpc[2] = "dropped"
        /\ wk[w].kind \in Kinds(2)

C7_Lifecycle ==
    /\ Cardinality(Alive) <= 1
    /\ \A k \in DOMAIN slots : slots[k] # << >>
    /\ \A k \in ShutdownType :
          Handlers(slots, k) = SelectSeq(regseq, LAMBDA g : g \in RegisteredFor(k))
    /\ stateSome <=> DOMAIN slots # {}
    /\ DOMAIN slots # {} => Cardinality(Alive) = 1
    /\ (\A g \in Guards : ~Leaving(g)) /\ Alive # {} => DOMAIN slots # {}

\* C7: a second coordinator lifetime: the State is back after it was taken down.
C7_Witness ==
    /\ stateSome
    /\ \E w \in Workers : wk[w].pc = "exited"
    /\ Cardinality(Alive) = 1

\* C8: a callback runs only while its background thread holds the STATE mutex,
\* at most one callback runs at a time, and while one runs no registration or
\* removal changes the coordinator state.
C8_CallbackUnderMutex ==
    /\ [](\A w \in InCallback : mutex = ByWorker(w))
    /\ [](Cardinality(InCallback) <= 1)
    /\ [][InCallback # {} /\ exited' = "no"
            => /\ slots' = slots /\ stateSome' = stateSome
               /\ \A g \in Guards : gpc'[g] = gpc[g] \/ Kinds(g) = {}]_vars

\* C8: a callback runs while a user thread wants to drop a guard and another to
\* construct one.
C8_Witness ==
    /\ InCallback # {}
    /\ \E g \in Guards : gpc[g] = "live"
    /\ \E g \in Guards : gpc[g] = "unborn"

\* C9: after a callback panicked, handle returns as after any callback: the
\* process and the background thread go on with the rest of the wake, the
\* mutex is free, the callback is still the newest of its kind, and the
\* notification is not dispatched again.
C9_PanicAbsorbed ==
    [][\A w \in Workers :
          HandleCaught(w)
              => /\ exited' = "no"
                 /\ mutex' = Free
                 /\ wk'[w].pc \in {"int_loop", "term_loop", "check"}
                 /\ wk'[w].int_count = wk[w].int_count
                 /\ wk'[w].term_count = wk[w].term_count
                 /\ INT_COUNT' = INT_COUNT /\ TERM_COUNT' = TERM_COUNT
                 /\ dispatched' = dispatched
                 /\ slots' = slots /\ stateSome' = stateSome
                 /\ LET h == Handlers(slots', wk[w].kind)
                    IN  h # << >> /\ h[Len(h)] = wk[w].cur]_vars

\* C9: the second notification of a wake is dispatched to the callback that
\* panicked on the first.
C9_Witness ==
    \E w \in Workers :
        /\ wk[w].pc = "h_caught"
        /\ Len(wk[w].log) = 2
        /\ wk[w].log[1] = wk[w].log[2]

\* Notifications of kind k recorded and not yet handed to handle.
Pending(k) == recorded[k] - dispatched[k]

\* The calls of a wake that drained K Interrupts and M Terminates: K times
\* Interrupt, then M times Terminate.
Batch(K, M) == [i \in 1 .. (K + M) |-> IF i <= K THEN Interrupt ELSE Terminate]

\* The background threads inside the dispatch loops of a wake.
InLoops == {w \in Workers : wk[w].pc \in {"int_loop", "term_loop", "h_lock", "h_call", "h_caught"}}

\* C10: within one wake the handle calls are those of the drained counts K and
\* M, all Interrupts before any Terminate: the calls made so far are a prefix of
\* K Interrupts then M Terminates, and all of them when the wake ends; and the
\* wake drained every notification recorded and not dispatched before it, but
\* those its counter still holds.
C10_InterruptsThenTerminates ==
    /\ [](\A w \in InLoops :
            LET B == Batch(wk[w].got[1], wk[w].got[2])
            IN  /\ Len(wk[w].log) <= Len(B)
                /\ wk[w].log = SubSeq(B, 1, Len(wk[w].log))
                /\ Pending(Interrupt) = INT_COUNT + wk[w].int_count
                /\ Pending(Terminate) = TERM_COUNT + wk[w].term_count
                /\ wk[w].int_count + wk[w].term_count = Len(B) - Len(wk[w].log))
    /\ [][\A w \in InLoops :
            wk'[w].pc = "check" /\ exited' = "no"
                => wk[w].log = Batch(wk[w].got[1], wk[w].got[2])]_vars

\* C10: a wake that drained an Interrupt and a Terminate has dispatched both.
C10_Witness ==
    \E w \in Workers :
        /\ wk[w].pc = "h_call"
        /\ wk[w].got = <<1, 1>>
        /\ wk[w].log = <<Interrupt, Terminate>>

\* The callback of a guard whose destruction has returned is not running.
DroppedNeverInvoked == \A w \in InCallback : gpc[wk[w].cur] # "dropped"

\* C2: once the destruction of a guard has returned its callback is not invoked,
\* and a notification of one of its kinds recorded before the return is not
\* left behind: when the destruction returns with the process running, a
\* background thread is there to dispatch it (to another callback, or into the
\* exit of handle).
C2_DroppedNeverInvokedNoneLeft ==
    /\ []DroppedNeverInvoked
    /\ [][\A g \in Guards, k \in ShutdownType :
            /\ gpc[g] # "dropped" /\ gpc'[g] = "dropped"
            /\ k \in Kinds(g) /\ Pending(k)' > 0 /\ exited' = "no"
            => Alive' # {}]_vars

\* C3: the stop sequence of leave_outer never comes to a state in which the
\* destroying thread waits for STOP_SEM and no background thread can take the
\* step that leads to its post.
C3_StopSequenceCompletes ==
    \A g \in Guards :
        gpc[g] = "leave_wait" => ENABLED LeaveWait(g) \/ \E w \in Workers : ENABLED WorkerStep(w)

\* C6: a background thread that has observed the stop flag and leaves its loop
\* leaves no count in a counter (notifications are recorded only while their
\* kind has a slot, so before the stop sequence).
C6_ExitsDrained ==
    \A w \in Workers :
        wk[w].pc \in {"exit_store", "exit_post"} => INT_COUNT = 0 /\ TERM_COUNT = 0

\* Notifications of kind k that background thread w drained from the counter
\* (load and fetch_sub both done) and has not yet handed to handle.
Held(w, k) ==
    IF k = Interrupt
    THEN IF wk[w].pc \in {"term_load", "term_sub", "int_loop", "term_loop",
                          "h_lock", "h_call", "h_caught"}
         THEN wk[w].int_count ELSE 0
    ELSE IF wk[w].pc \in {"int_loop", "term_loop", "h_lock", "h_call", "h_caught"}
         THEN wk[w].term_count ELSE 0

RECURSIVE SumHeld(_, _)
SumHeld(W, k) ==
    IF W = {} THEN 0
    ELSE LET w == CHOOSE x \in W : TRUE IN Held(w, k) + SumHeld(W \ {w}, k)

\* No count is lost or invented: every notification recorded was handed to
\* handle, or is in its counter, or is held by a background thread in its
\* loops; and fetch_sub never takes more than the counter holds.
CountsConserved ==
    \A k \in ShutdownType :
        /\ Counter(k) >= 0
        /\ recorded[k] = dispatched[k] + Counter(k) + SumHeld(Workers, k)

\* No lost wake-up: a background thread blocked in sem_wait with a counter that
\* is not zero has a post coming (made, or pending in a signal handler).
NoLostWakeup ==
    \A w \in Workers :
        wk[w].pc = "wait" /\ (INT_COUNT > 0 \/ TERM_COUNT > 0)
            => NOTIFY_SEM > 0 \/ unposted > 0

\* C4: no count is lost or invented between the signal handler and the
\* dispatch loop, and no counter is left non-zero with the background thread
\* blocked and no wake-up coming.
C4_CountsConservedNoLostWakeup == CountsConserved /\ NoLostWakeup

\* NoLostWakeup within the first coordinator lifetime.
NoLostWakeupFirstLifetime ==
    (\A w \in Workers : wk[w].pc # "exited") => NoLostWakeup

(***************************************************************************)
(* What the claims speak of: signal-stack.                                 *)
(***************************************************************************)

\* The executions of our_handler that have come to their return.
AtReturn == {r \in Deliveries : rd[r].pc = "ret"}

\* The slot of its signal number in the table an execution of our_handler read.
SlotRead(r) == values[rd[r].idx].map[rd[r].signum]

\* The table an execution of our_handler read has a slot for its signal number.
Present(r) == values[rd[r].idx].some /\ rd[r].signum \in DOMAIN values[rd[r].idx].map

\* C11: an execution of our_handler that found its signal number in the table
\* has called the callbacks of the slot from the newest to the oldest, each
\* once, up to the first that returned true; after one returned true it called
\* no other and did not delegate; when none returned true (also with no
\* callback at all) it called them all and delegated once, to slot.prev.
C11_NewestFirstThenDelegateOnce ==
    \A r \in AtReturn :
        Present(r) =>
            LET stack == SlotRead(r).stack
                calls == rd[r].calls
            IN  /\ Len(calls) <= Len(stack)
                /\ \A n \in 1 .. Len(calls) :
                      /\ calls[n][1] = stack[Len(stack) - n + 1]
                      /\ n < Len(calls) => ~calls[n][2]
                /\ IF calls # << >> /\ calls[Len(calls)][2]
                   THEN rd[r].delegated = << >>
                   ELSE /\ Len(calls) = Len(stack)
                        /\ Len(rd[r].delegated) = 1
                        /\ SlotRead(r).prev = SigHandlerPtr
                              => rd[r].delegated = <<"handler(signum)">>

\* C11: a signal went through the callbacks of two guards, the newer first,
\* neither returned true, and the handler set before them was called.
C11_Witness ==
    \E r \in AtReturn :
        /\ rd[r].calls = << <<2, FALSE>>, <<1, FALSE>> >>
        /\ rd[r].delegated = <<"handler(signum)">>

\* The handlers registered for a signal number and not removed, in the order
\* of their registration (history).
Entries(signum) == [n \in 1 .. Len(pushed[signum]) |-> pushed[signum][n].handler]

\* The stack a table holds for a signal number.
StackOf(T, signum) ==
    IF T.some /\ signum \in DOMAIN T.map THEN T.map[signum].stack ELSE << >>

\* The guards whose callback is registered: add_handler has pushed it and no
\* remove_handler has taken it out.
Adding == {t \in Threads : th[t].pc \in {"upgrade", "install", "write", "live"}
                              /\ th[t].op # "remove"}

RECURSIVE Count(_, _)
\* How often x is listed in a sequence.
Count(seq, x) ==
    IF seq = << >> THEN 0
    ELSE (IF Head(seq) = x THEN 1 ELSE 0) + Count(Tail(seq), x)

RECURSIVE Listed(_, _, _)
\* How often the guards of G with handler h list the signal number.
Listed(G, h, signum) ==
    IF G = {} THEN 0
    ELSE LET t == CHOOSE x \in G : TRUE
         IN  (IF th[t].handler = h THEN Count(th[t].signums, signum) ELSE 0)
                 + Listed(G \ {t}, h, signum)

\* C12: at every state, for every signal number, what dispatch would walk is
\* the registered callbacks in reverse order of registration: values[1], and
\* values[0] when no write is in flight, hold them in order of registration
\* (a removal took out the entry pushed last among those of its pointer and
\* moved no other), and each handler as often as the guards holding it list
\* the signal number.
C12_StackIsRegistrationOrder ==
    \A signum \in Signums :
        /\ StackOf(values[1], signum) = Entries(signum)
        /\ rw_mutex = 0 => StackOf(values[0], signum) = Entries(signum)
        /\ LET walk == Rev(StackOf(values[1], signum))
           IN  \A n \in 1 .. Len(walk) : walk[n] = Entries(signum)[Len(walk) - n + 1]
        /\ \A h \in Threads :
              Count(StackOf(values[1], signum), h) = Listed(Adding, h, signum)

\* C12: the older of two guards is being removed from under the newer one,
\* which listed SIGINT twice.
C12_Witness ==
    /\ th[1].pc = "upgrade" /\ th[1].op = "remove"
    /\ th[2].pc = "live"
    /\ StackOf(values[0], SIGINT) = <<1, 2, 2>>
    /\ StackOf(values[1], SIGINT) = <<2, 2>>

\* A slot of the cell that no try_read can enter: it is write-locked or has an
\* upgradeable reader.
Exclusive(i) == rwlock[i].writer \/ rwlock[i].upgraded

\* The user threads between write() and the end of WriteGuard::drop.
Writers == {t \in Threads : th[t].pc \in {"mutate", "commit", "upgradeable", "upgrade"}}

\* C13: at every state of the two-slot cell, at most one of values[0] and
\* values[1] is exclusively held, at most one writer is between write() and
\* the end of the drop of its guard (and it is the holder of the mutex), and
\* a try_read of one of the two slots succeeds.
C13_OneSlotReadable ==
    /\ ~(Exclusive(0) /\ Exclusive(1))
    /\ Cardinality(Writers) <= 1
    /\ \A t \in Writers : rw_mutex = t
    /\ \E i \in {0, 1} : TryRead(rwlock[i])

\* C13: a delivery reads values[1] while one writer is in the commit to
\* values[0] and the other guard waits for the mutex.
C13_Witness ==
    /\ \E t \in Threads : th[t].pc = "upgrade" /\ Exclusive(0)
    /\ \E t \in Threads : th[t].pc = "write"
    /\ \E r \in AtReturn : rd[r].idx = 1

\* C14: at every state of the two-slot cell, the value under a ReadGuard is
\* one that a write committed whole (the last one or the one before it, never
\* a value in the middle of its mutation), a slot not exclusively held
\* holds one of these two, and with no write in flight both slots hold the
\* value of the last write.
C14_ReadsWholeWrittenValue ==
    /\ \A r \in AtReturn :
          /\ ~rwlock[rd[r].idx].writer
          /\ values[rd[r].idx] \in {written[1], written[2]}
    /\ \A i \in {0, 1} : ~Exclusive(i) => values[i] \in {written[1], written[2]}
    /\ rw_mutex = 0 => values[0] = written[2] /\ values[1] = written[2]

\* C14: a delivery reads values[0] while values[1] holds the first of the two
\* entries that an add_handler is pushing.
C14_Witness ==
    /\ \E t \in Threads : th[t].pc = "mutate" /\ th[t].op = "add" /\ th[t].i = 2
    /\ values[1] \notin {written[1], written[2]}
    /\ \E r \in AtReturn : rd[r].idx = 0 /\ values[0] = written[2]

\* The signal numbers a table has a slot for.
Slots(T) == IF T.some THEN DOMAIN T.map ELSE {}

\* C15: while the process runs, a table that is Some stays Some and a slot
\* that a table holds stays in it, in values[0] and in values[1]: removing the
\* last callback of a signal number leaves its slot with an empty stack.
C15_SlotsStay ==
    [][exited' = "no" =>
          \A i \in {0, 1} :
              /\ values[i].some => values'[i].some
              /\ Slots(values[i]) \subseteq Slots(values'[i])]_vars

\* C15: every guard was dropped, the slot of SIGINT is there with an empty
\* stack and a delivery of SIGINT went to its prev.
C15_Witness ==
    /\ \A t \in Threads : th[t].pc = "dropped"
    /\ \A i \in {0, 1} : SIGINT \in Slots(values[i]) /\ values[i].map[SIGINT].stack = << >>
    /\ \E r \in AtReturn :
          /\ rd[r].signum = SIGINT
          /\ rd[r].calls = << >>
          /\ rd[r].delegated = <<"handler(signum)">>

\* C15 as stated: a slot is in the table only with a non-empty stack, and the
\* table is Some only with a slot in it.
C15_SlotOnlyWhileNonEmpty ==
    \A i \in {0, 1} :
        /\ values[i].some => Slots(values[i]) # {}
        /\ \A signum \in Slots(values[i]) : values[i].map[signum].stack # << >>

\* The user threads that have a signal number among those they are to install
\* the trampoline for, or have just installed it for.
Installers(signum) ==
    {t \in Threads : \/ \E n \in 1 .. Len(th[t].install_c_handlers) :
                           th[t].install_c_handlers[n] = signum
                     \/ \E n \in 1 .. Len(th[t].prevs) : th[t].prevs[n][1] = signum}

ForgottenGuards == {g \in Guards : gpc[g] = "forgotten"}
ForgottenHandlers == {t \in Threads : th[t].pc = "forgotten"}

\* The background threads that were spawned and have not been told to stop.
NotStopped == {w \in Workers : wk[w].pc \notin {"unborn", "exit_store", "exit_post", "exited", "dead"}}

RECURSIVE ListedKept(_, _, _)
\* How often the guards of G with handler h listed the signal number when they
\* were constructed.
ListedKept(G, h, signum) ==
    IF G = {} THEN 0
    ELSE LET t == CHOOSE x \in G : TRUE
         IN  (IF th[t].handler = h THEN Count(th[t].listed, signum) ELSE 0)
                 + ListedKept(G \ {t}, h, signum)

\* C17: at every state, the handler of a forgotten ShutdownGuard is in the
\* slot of each of its types, and while there is such a guard the State is
\* Some, STOPPING is false and a background thread runs that was not told to
\* stop; a forgotten SignalHandlerGuard has no signums left to remove, and
\* each handler is in the stack of a signal number as often as the guards
\* that are registered or forgotten listed it.
C17_ForgottenStaysRegistered ==
    /\ \A g \in ForgottenGuards :
          /\ \A k \in Kinds(g) : k \in DOMAIN slots /\ \E n \in 1 .. Len(slots[k]) : slots[k][n] = g
          /\ stateSome
          /\ ~STOPPING
          /\ NotStopped # {}
    /\ \A t \in ForgottenHandlers : th[t].signums = << >> /\ th[t].listed # << >>
    /\ \A signum \in Signums, h \in Threads :
          Count(StackOf(values[1], signum), h)
              = Listed(Adding, h, signum) + ListedKept(ForgottenHandlers, h, signum)

\* C17: the first guard was forgotten, the second was dropped after it, and
\* the background thread calls the handler of the forgotten guard.
C17_Witness ==
    /\ gpc[1] = "forgotten" /\ gpc[2] = "dropped"
    /\ \E w \in InCallback : wk[w].cur = 1

\* A second removal by ShutdownGuard::drop that returned: its types have no
\* slot, other types have.
DroppedAgain == {g \in Guards : gpc[g] = "dropped_again"}

\* A second removal by remove_handler that returned.
RemovedAgain == {t \in Threads : th[t].pc = "removed_again"}

\* A removal that finds nothing to remove leaves the table and the slots as
\* they were.
SecondRemovalChangesNothing ==
    [][exited' = "no" =>
          /\ \A g \in Guards : gpc[g] = "dropped" /\ gpc'[g] # "dropped" => slots' = slots
          /\ \A t \in Threads :
                th[t].pc = "dropped" /\ th'[t].pc # "dropped" => values'[1] = values[1]]_vars

\* C18: no removal of an identity that is not registered returns as if it had
\* removed something: not that of ShutdownGuard::drop, not that of
\* remove_handler.
C18_SecondRemovalReported == DroppedAgain = {} /\ RemovedAgain = {}

\* The default action the platform gives each signal (signal(7)): Term, Ign,
\* Core, Stop or Cont.
PlatformDefault(signum) ==
    IF signum \in {"SIGALRM", "SIGHUP", "SIGINT", "SIGPIPE", "SIGPOLL", "SIGPROF", "SIGTERM",
                   "SIGUSR1", "SIGUSR2", "SIGVTALRM", "SIGPWR", "SIGSTKFLT"} THEN "Term"
    ELSE IF signum \in {"SIGCHLD", "SIGURG", "SIGWINCH"} THEN "Ign"
    ELSE IF signum = "SIGCONT" THEN "Cont"
    ELSE IF signum \in {"SIGTSTP", "SIGTTIN", "SIGTTOU"} THEN "Stop"
    ELSE "Core"

\* C19: in every step in which our_handler runs on a slot and no callback
\* returns true, what is done depends on the slot's prev: SIG_IGN, nothing;
\* a handler function, it is called with the signal number, or with number,
\* info and context when it was set with SA_SIGINFO; SIG_DFL, the default
\* action of the signal's class for the signals delegate names: nothing (Ign,
\* and Cont in a running process), a stop, an abort (Core), and for Term the
\* process exits with code 3.
C19_DelegateByKind ==
    [][\A r \in Deliveries :
          /\ rd[r].pc \in {"idle", "read"}
          /\ rd'[r].pc \in {"ret", "exit"}
          /\ rd'[r].signum \in Slots(values[rd'[r].idx])
          /\ ~Consumed(rd'[r].calls)
          => LET signum == rd'[r].signum
                 prev == values[rd'[r].idx].map[signum].prev
                 did == rd'[r].delegated
             IN  /\ prev = SIG_IGN => did = <<"nothing">> /\ exited' = "no"
                 /\ prev = SigHandlerPtr => did = <<"handler(signum)">> /\ exited' = "no"
                 /\ prev = SigActionPtr
                       => did = <<"handler(signum, info, ucontext)">> /\ exited' = "no"
                 /\ prev = SIG_DFL /\ signum \notin UnnamedSignals
                       => CASE PlatformDefault(signum) \in {"Ign", "Cont"}
                                    -> did = <<"nothing">> /\ exited' = "no"
                            [] PlatformDefault(signum) = "Stop"
                                    -> did = <<"raise(SIGSTOP)">> /\ exited' = "no"
                            [] PlatformDefault(signum) = "Core"
                                    -> exited' = "abort"
                            [] PlatformDefault(signum) = "Term"
                                    -> exited' = "_exit(3)" /\ ExitCode' = 3]_vars

\* C19: SIGTERM with the default handler as prev went through two callbacks
\* that returned false, and the process exited with code 3.
C19_Witness ==
    /\ ExitCode = 3
    /\ \E r \in Deliveries :
          /\ rd[r].pc = "exit" /\ rd[r].signum = SIGTERM
          /\ rd[r].calls = << <<2, FALSE>>, <<1, FALSE>> >>
          /\ rd[r].delegated = <<"_exit(3)">>

\* C20: in every step in which a bridge lifetime begins (enter_outer: State
\* goes from None to Some), INT_COUNT and TERM_COUNT are zero, so that nothing
\* recorded in an earlier lifetime is dispatched in this one.
C20_CountersZeroAtStart ==
    [][~stateSome /\ stateSome' => INT_COUNT' = 0 /\ TERM_COUNT' = 0]_vars
(***************************************************************************)
(* C21: successive reads of the two-slot cell.                             *)
(***************************************************************************)

\* C21: with the writes numbered in the order of their commits, a read that
\* began after an earlier read had returned never returns the value of a write
\* with a lower number than that earlier read returned, whatever the step of
\* WriteGuard::drop the reads fall between. (Not so: a read whose try_read of
\* values[0] failed during one commit can come to values[1] after the next
\* write released it and before that write has values[0]; the read after it
\* finds values[0] free and returns the value of the write before.)
C21_ReadsMonotonic ==
    \A r \in Deliveries : rd[r].pc = "ret" => rd[r].after <= rd[r].saw

\* What does hold of the numbers: a read returns the value of the last write
\* committed or of the one before it, values[1] is never behind values[0],
\* and a read is at most one write behind the reads that returned before it.
ReadsWithinOne ==
    /\ order.at[0] <= order.at[1] /\ order.at[1] <= order.at[0] + 1
    /\ order.at[1] = order.commits
    /\ \A r \in Deliveries : rd[r].pc = "ret" => rd[r].saw + 1 >= rd[r].after

(***************************************************************************)
(* C22: the last arm of delegate.                                          *)
(***************************************************************************)

\* The step with which the call of delegate of thread d returns.
DelegateReturns(d) == delegating[d].pc # "returned" /\ delegating'[d].pc = "returned"

\* C22: when a call of delegate that took the last arm (install SIG_DFL,
\* raise, install prev again) returns, the handler installed for the signal is
\* handler_thunk, whether or not another thread installed a handler between
\* the two installs.
C22_TrampolineBackAtReturn ==
    [][\A d \in Raisers :
          DelegateReturns(d) => sigaction'[delegating[d].signum] = handler_thunk]_vars

\* What does hold: a call whose first install replaced handler_thunk returns
\* with handler_thunk installed.
PrevOursBackAtReturn ==
    [][\A d \in Raisers :
          DelegateReturns(d) /\ delegating[d].prev = handler_thunk
              => sigaction'[delegating[d].signum] = handler_thunk]_vars

(***************************************************************************)
(* C23: the previous handler of a slot.                                    *)
(***************************************************************************)

\* C23: at every state of every interleaving of the steps of add_handler and
\* remove_handler, no slot of either copy of the table has handler_thunk as
\* its prev, no install of handler_thunk returned handler_thunk, and
\* handler_thunk was installed at most once for each signal number: the
\* delegate of a slot is never our_handler itself.
C23_PrevNeverOurs ==
    /\ \A i \in {0, 1} : \A signum \in Slots(values[i]) :
          values[i].map[signum].prev # handler_thunk
    /\ \A t \in Threads : \A n \in 1 .. Len(th[t].prevs) : th[t].prevs[n][2] # handler_thunk
    /\ \A signum \in Signums : installs[signum] <= 1

\* C23: the first guard was dropped, which emptied the stack of SIGINT, and
\* the second has pushed its handler to the slot in values[1]; handler_thunk
\* is installed and the slot has the handler that the one install replaced.
C23_Witness ==
    /\ th[1].pc = "dropped"
    /\ th[2].pc = "mutate" /\ th[2].op = "add" /\ th[2].i = 2
    /\ StackOf(values[0], SIGINT) = << >> /\ SIGINT \in Slots(values[0])
    /\ StackOf(values[1], SIGINT) = <<2>>
    /\ th[2].install_c_handlers = << >>
    /\ sigaction[SIGINT] = handler_thunk
    /\ values[1].map[SIGINT].prev = SigHandlerPtr

(***************************************************************************)
(* C24: the unwraps of add_handler's second write.                         *)
(***************************************************************************)

\* The user threads in add_handler that made a Slot in their first write and
\* have not finished the second.
BetweenWrites == {t \in Threads : th[t].install_c_handlers # << >>}

\* C24: at every state of every interleaving of the steps of add_handler and
\* remove_handler, while a thread is between making a Slot in its first write
\* and the end of its second write, values[1] is Some and has the slot of
\* every signal number the thread installs handler_thunk for, so that
\* guard.as_mut().unwrap() and handlers.get_mut(&signum).unwrap() succeed: no
\* add_handler unwinds.
C24_SecondWriteUnwraps ==
    /\ \A t \in Threads : th[t].op # "unwind" /\ th[t].pc # "panicked"
    /\ \A t \in BetweenWrites :
          /\ values[1].some
          /\ \A n \in 1 .. Len(th[t].install_c_handlers) :
                th[t].install_c_handlers[n] \in DOMAIN values[1].map
          /\ ~UnwrapFails(values[1], th[t].prevs)

\* C24: the first guard stores the previous handlers of SIGINT and SIGTERM in
\* its second write after the second guard was constructed and dropped
\* between the two writes.
C24_Witness ==
    /\ th[1].op = "set" /\ th[1].pc = "commit"
    /\ Len(th[1].prevs) = 2
    /\ th[2].pc = "dropped"
    /\ values[1].map[SIGINT].prev = SigHandlerPtr
    /\ StackOf(values[1], SIGINT) = <<1>>

====
